---- MODULE Spec2Model ----
(***************************************************************************)
(* dashboard-pwa: the offline-first task synchronisation engine.           *)
(*                                                                         *)
(* Each device keeps a local task table, an outbox queue and a pull        *)
(* cursor (src/lib/db.ts); fireSync (the App component) starts syncNow =   *)
(* flushQueue then pullUpdates (src/lib/sync.ts) against one remote task    *)
(* table (supabase/migrations/202602121700_init_tasks_and_push.sql).       *)
(*                                                                         *)
(* Time.  Instants are counted in ticks; TicksPerMs ticks make one         *)
(* millisecond.  The server's now() is a timestamptz with sub-millisecond   *)
(* resolution (the whole tick count); the client's nowIso() is             *)
(* Date.toISOString(), which has millisecond resolution, and toMs() is     *)
(* Date.getTime(), which drops the sub-millisecond part.  One clock is     *)
(* shared by all parties (no skew), and every server transaction that      *)
(* stamps a row gets a now() of its own.                                   *)
(***************************************************************************)
EXTENDS Integers, Sequences, FiniteSets, TLC

\* ---------------------------------------------------------------- bounds
TicksPerMs == 2     \* sub-millisecond ticks per millisecond
MaxClock == 7       \* last tick of the clock (it starts at TicksPerMs)
MaxOps == 2         \* queue operations enqueued in Spec
MaxInFlight == 2    \* fireSync invocations a device may have running at once
MaxSyncs == 2       \* fireSync invocations a device starts
MaxRetries == 1     \* failed remote calls are injected while retries < MaxRetries
MaxQueued == 4      \* queue operations enqueued in SpecQueue
MaxQueueClock == 5  \* last tick of the clock in SpecQueue
MaxForeign == 2     \* writes of other clients to the remote in SpecFeed
MaxRuns == 2        \* requests the dispatcher handles in SpecDispatch
MaxElapsed == 4     \* half minutes that pass in SpecDispatch
MaxRecordClock == 4 \* the clock of SpecRecords stops here

\* ------------------------------------------------- scaled program constants
SYNC_BATCH_SIZE == 2   \* db.ts:11 has 100; scaled so that a queue can exceed it
PULL_LIMIT == 2        \* sync.ts:80 has .limit(1000); scaled likewise

Devices == {"d1", "d2"}
Owners == {"u1", "u2"}
TaskIds == {"t1", "t2"}
Titles == {"a", "b"}
Slots == 1..MaxInFlight

Null == -1          \* null / undefined
Epoch == 0          \* '1970-01-01T00:00:00.000Z'

VARIABLES
    clock,        \* the current instant, in ticks
    online,       \* [device -> BOOLEAN]: useOnlineStatus()
    sessionUser,  \* [device -> owner]: sessionUserId
    remote,       \* public.tasks: task id -> row
    tasks,        \* [device -> db.tasks]: task id -> TaskRecord
    queue,        \* [device -> db.queue]: operation id -> QueueOperation
    meta,         \* [device -> db.meta]: key (owner of lastPullKey) -> value
    sync,         \* [device -> [slot -> a fireSync invocation]]
    started,      \* [device -> fireSync invocations started so far]
    enqLog,       \* history: [device -> operation ids in enqueue order]
    applied,      \* history: operation ids whose remote call succeeded
    outOfOrder,   \* history: ids applied after a later operation of the same task
    mIn,          \* SpecMerge: the inputs of a merge, [local, a, b]
    mOut,         \* SpecMerge: the tables two ways of merging them give
    feed,         \* [device -> change events of its realtime channel, not yet handled]
    listener,     \* history: [device -> task ids passed to onTaskChanged]
    hist,         \* history: how the remote was before and after the latest foreign write
    cron,         \* the dispatch-due handler's run: position and local variables
    subs,         \* public.push_subscriptions: subscription id -> row
    notifiedDue   \* history: task id -> its due instant when it was marked notified

feedVars == <<feed, listener, hist>>
cronVars == <<cron, subs, notifiedDue>>

vars == <<clock, online, sessionUser, remote, tasks, queue, meta, sync,
          started, enqLog, applied, outOfOrder, mIn, mOut, feedVars, cronVars>>

\* ----------------------------------------------------------------- tables
\* A Dexie / SQL table is a function from the keys present to the rows.
EmptyTable == [k \in {} |-> Null]
Put(tbl, k, row) == [x \in (DOMAIN tbl) \cup {k} |-> IF x = k THEN row ELSE tbl[x]]
Delete(tbl, k) == [x \in (DOMAIN tbl) \ {k} |-> tbl[x]]
Range(s) == {s[i] : i \in DOMAIN s}
Min(a, b) == IF a < b THEN a ELSE b

\* ------------------------------------------------------------------- time
nowIso == (clock \div TicksPerMs) * TicksPerMs

toMs(iso) == IF iso = Null THEN 0 ELSE iso \div TicksPerMs

\* Mutant: the comparison is the wrong way round.
isIncomingNewer_Reversed(incoming, tbl) ==
    IF incoming.id \notin DOMAIN tbl
    THEN TRUE
    ELSE toMs(incoming.updated_at) < toMs(tbl[incoming.id].updated_at)

\* Mutant: whatever arrives replaces the stored record.
isIncomingNewer_Always(incoming, tbl) == TRUE

\* Mutant: a record the table does not hold is not taken in.
isIncomingNewer_OnlyStored(incoming, tbl) ==
    /\ incoming.id \in DOMAIN tbl
    /\ toMs(incoming.updated_at) > toMs(tbl[incoming.id].updated_at)

isIncomingNewer(incoming, tbl) ==
    IF incoming.id \notin DOMAIN tbl
    THEN TRUE
    ELSE toMs(incoming.updated_at) > toMs(tbl[incoming.id].updated_at)

\* ------------------------------------------------------------ local store
\* Mutant: a record that is not newer removes the stored one.
RECURSIVE upsertTasksFromRemote_DropsStale(_, _)
upsertTasksFromRemote_DropsStale(tbl, batch) ==
    IF batch = <<>>
    THEN tbl
    ELSE LET incoming == Head(batch)
             next == IF isIncomingNewer(incoming, tbl)
                     THEN Put(tbl, incoming.id, incoming)
                     ELSE Delete(tbl, incoming.id)
         IN upsertTasksFromRemote_DropsStale(next, Tail(batch))

RECURSIVE upsertTasksFromRemote(_, _)
upsertTasksFromRemote(tbl, batch) ==
    IF batch = <<>>
    THEN tbl
    ELSE LET incoming == Head(batch)
             next == IF isIncomingNewer(incoming, tbl)
                     THEN Put(tbl, incoming.id, incoming)
                     ELSE tbl
         IN upsertTasksFromRemote(next, Tail(batch))

\* The task handleCreateTask builds: an open task stamped once.
NewTask(id, user, title, stamp) ==
    [id |-> id, user_id |-> user, title |-> title, status |-> "todo",
     completed_at |-> Null, updated_at |-> stamp]

\* raw.field ?? default: a Partial<TaskRecord> lacks the fields it does not carry.
Has(raw, field) == field \in DOMAIN raw

normalizeTaskRecord(raw) ==
    [id |-> raw.id,
     user_id |-> IF Has(raw, "user_id") THEN raw.user_id ELSE "",
     title |-> IF Has(raw, "title") THEN raw.title ELSE "",
     status |-> IF Has(raw, "status") /\ raw.status = "done" THEN "done" ELSE "todo",
     completed_at |-> IF Has(raw, "completed_at") THEN raw.completed_at ELSE Null,
     updated_at |-> IF Has(raw, "updated_at") /\ raw.updated_at # Null
                    THEN raw.updated_at
                    ELSE nowIso]

\* ------------------------------------------------------------------ outbox
QueueOp(id, user, type, taskId, payload) ==
    [id |-> id, user_id |-> user, type |-> type, task_id |-> taskId,
     payload |-> payload, created_at |-> nowIso, retries |-> 0]

\* crypto.randomUUID(): any identifier of the pool never handed out before.
UsedOpIds == UNION {{e.id : e \in Range(enqLog[d])} : d \in Devices}
FreshOpIds(pool) == (1..pool) \ UsedOpIds

enqueueTaskUpsert(q, id, task) ==
    Put(q, id, QueueOp(id, task.user_id, "upsert_task", task.id, task))

enqueueTaskDelete(q, id, userId, taskId) ==
    Put(q, id, QueueOp(id, userId, "delete_task", taskId, [id |-> taskId]))

\* where('user_id').equals(userId).toArray(): the owner's rows in primary-key order.
RECURSIVE KeyOrder(_, _)
KeyOrder(q, ids) ==
    IF ids = {}
    THEN <<>>
    ELSE LET k == CHOOSE x \in ids : \A y \in ids : x <= y
         IN <<q[k]>> \o KeyOrder(q, ids \ {k})

\* Array.prototype.sort by created_at is stable: a row goes behind every row
\* that is not later than it.
RECURSIVE InsertByCreatedAt(_, _)
InsertByCreatedAt(sorted, row) ==
    IF sorted = <<>>
    THEN <<row>>
    ELSE IF Head(sorted).created_at <= row.created_at
         THEN <<Head(sorted)>> \o InsertByCreatedAt(Tail(sorted), row)
         ELSE <<row>> \o sorted

RECURSIVE sortByCreatedAt(_)
sortByCreatedAt(rows) ==
    IF rows = <<>>
    THEN <<>>
    ELSE InsertByCreatedAt(sortByCreatedAt(SubSeq(rows, 1, Len(rows) - 1)),
                           rows[Len(rows)])

\* Mutant: the rows are sliced without being sorted.
getPendingQueue_Unsorted(q, userId) ==
    LET rows == KeyOrder(q, {k \in DOMAIN q : q[k].user_id = userId})
    IN SubSeq(rows, 1, Min(Len(rows), SYNC_BATCH_SIZE))

getPendingQueue(q, userId) ==
    LET rows == sortByCreatedAt(KeyOrder(q, {k \in DOMAIN q : q[k].user_id = userId}))
    IN SubSeq(rows, 1, Min(Len(rows), SYNC_BATCH_SIZE))

markQueueProcessed(q, queueId) == Delete(q, queueId)

\* bumpQueueRetry is a get followed by a put of the row it read.
bumpQueueRetryPut(q, item) == Put(q, item.id, [item EXCEPT !.retries = item.retries + 1])

\* ------------------------------------------------------------------- meta
lastPullKey(userId) == userId
getMetaValue(m, key) == IF key \in DOMAIN m THEN m[key] ELSE Null
setMetaValue(m, key, value) == Put(m, key, value)

\* ----------------------------------------------------------- remote store
\* upsert(task, { onConflict: 'id' }): a new id is inserted as sent; an
\* existing row is replaced and the tasks_set_updated_at trigger stamps it.
RemoteUpsert(tbl, task, stamp) ==
    IF task.id \in DOMAIN tbl
    THEN Put(tbl, task.id, [task EXCEPT !.updated_at = stamp])
    ELSE Put(tbl, task.id, task)

\* delete().eq('id', ...).eq('user_id', ...)
RemoteDelete(tbl, taskId, userId) ==
    IF taskId \in DOMAIN tbl /\ tbl[taskId].user_id = userId
    THEN Delete(tbl, taskId)
    ELSE tbl

\* select('*').eq('user_id', u).gt('updated_at', since).order(ascending).limit(n):
\* every answer the server may give (rows of one updated_at come in any order).
SelectRows(tbl, userId, since) ==
    {tbl[k] : k \in {x \in DOMAIN tbl : tbl[x].user_id = userId /\ tbl[x].updated_at > since}}

SelectResults(tbl, userId, since) ==
    LET rows == SelectRows(tbl, userId, since)
        n == Min(Cardinality(rows), PULL_LIMIT)
    IN {s \in [1..n -> rows] :
            /\ \A i, j \in 1..n : i < j => s[i] # s[j] /\ s[i].updated_at <= s[j].updated_at
            /\ \A r \in rows \ Range(s) : \A i \in 1..n : s[i].updated_at <= r.updated_at}

\* ------------------------------------------------------- fireSync invocations
Idle == [pc |-> "idle", user |-> "", pending |-> <<>>, idx |-> 0,
         item |-> <<>>, batch |-> <<>>]

InFlight(d) == {i \in Slots : sync[d][i].pc # "idle"}

\* No change event is waiting and no listener was called.
NoHist == [kind |-> "none"]

FeedQuiet ==
    /\ feed = [d \in Devices |-> <<>>]
    /\ listener = [d \in Devices |-> <<>>]
    /\ hist = NoHist

\* The dispatch-due handler is not running: its local variables as declared.
CronIdle == [pc |-> "idle", windowMinutes |-> 0, due |-> <<>>, subscriptions |-> <<>>,
             task |-> 0, sub |-> 0, deliveredToAtLeastOneDevice |-> FALSE,
             sentTaskIds |-> {}, sentCount |-> 0, status |-> 0, runs |-> 0]

CronQuiet ==
    /\ cron = CronIdle
    /\ subs = EmptyTable
    /\ notifiedDue = EmptyTable

\* The state of the devices and of the remote before anything happened.
Fresh ==
    /\ FeedQuiet
    /\ CronQuiet
    /\ clock = TicksPerMs
    /\ online = [d \in Devices |-> TRUE]
    /\ sessionUser = [d \in Devices |-> "u1"]
    /\ remote = EmptyTable
    /\ tasks = [d \in Devices |-> EmptyTable]
    /\ queue = [d \in Devices |-> EmptyTable]
    /\ meta = [d \in Devices |-> EmptyTable]
    /\ sync = [d \in Devices |-> [i \in Slots |-> Idle]]
    /\ started = [d \in Devices |-> 0]
    /\ enqLog = [d \in Devices |-> <<>>]
    /\ applied = {}
    /\ outOfOrder = {}

NoMerge == [kind |-> "none"]

Init == Fresh /\ mIn = NoMerge /\ mOut = NoMerge

\* --------------------------------------------------------------- environment
Tick ==
    /\ clock < MaxClock
    /\ clock' = clock + 1
    /\ UNCHANGED <<online, sessionUser, remote, tasks, queue, meta, sync,
                   started, enqLog, applied, outOfOrder, mIn, mOut, feedVars, cronVars>>

GoOnline(d) ==
    /\ ~online[d]
    /\ online' = [online EXCEPT ![d] = TRUE]
    /\ UNCHANGED <<clock, sessionUser, remote, tasks, queue, meta, sync,
                   started, enqLog, applied, outOfOrder, mIn, mOut, feedVars, cronVars>>

\* ------------------------------------------------------------ local mutations
\* The task list shown to the user: the session user's tasks.
Shown(d) == {k \in DOMAIN tasks[d] : tasks[d][k].user_id = sessionUser[d]}

UsedTaskIds ==
    DOMAIN remote \cup UNION {DOMAIN tasks[d] : d \in Devices}
        \cup UNION {{e.task_id : e \in Range(enqLog[d])} : d \in Devices}

\* The history entry of an operation just put into the queue q.
Enqueued(q, opId) == [id |-> opId, task_id |-> q[opId].task_id, op |-> q[opId]]

\* Mutant: the operation is enqueued whatever shouldQueue says.
putTaskLocal_AlwaysQueues(d, task, shouldQueue, opId) ==
    /\ tasks' = [tasks EXCEPT ![d] = Put(tasks[d], task.id, task)]
    /\ queue' = [queue EXCEPT ![d] = enqueueTaskUpsert(queue[d], opId, task)]
    /\ enqLog' = [enqLog EXCEPT ![d] = Append(@, Enqueued(queue'[d], opId))]

putTaskLocal(d, task, shouldQueue, opId) ==
    /\ tasks' = [tasks EXCEPT ![d] = Put(tasks[d], task.id, task)]
    /\ IF shouldQueue
       THEN /\ queue' = [queue EXCEPT ![d] = enqueueTaskUpsert(queue[d], opId, task)]
            /\ enqLog' = [enqLog EXCEPT ![d] = Append(@, Enqueued(queue'[d], opId))]
       ELSE UNCHANGED <<queue, enqLog>>

deleteTaskLocal(d, userId, taskId, shouldQueue, opId) ==
    /\ tasks' = [tasks EXCEPT ![d] = Delete(tasks[d], taskId)]
    /\ IF shouldQueue
       THEN /\ queue' = [queue EXCEPT ![d] = enqueueTaskDelete(queue[d], opId, userId, taskId)]
            /\ enqLog' = [enqLog EXCEPT ![d] = Append(@, Enqueued(queue'[d], opId))]
       ELSE UNCHANGED <<queue, enqLog>>

\* updateTask's next: the source with the patch over it, stamped now; a patch
\* to done keeps or sets completed_at, a patch to todo clears it.
Patched(source, patch) ==
    LET next == [source EXCEPT
                   !.title = IF Has(patch, "title") THEN patch.title ELSE @,
                   !.status = IF Has(patch, "status") THEN patch.status ELSE @,
                   !.updated_at = nowIso]
    IN IF Has(patch, "status") /\ patch.status = "done"
       THEN [next EXCEPT !.completed_at = IF source.completed_at # Null
                                          THEN source.completed_at ELSE nowIso]
       ELSE IF Has(patch, "status") /\ patch.status = "todo"
            THEN [next EXCEPT !.completed_at = Null]
            ELSE next

handleCreateTask(d, pool) ==
    \E id \in TaskIds \ UsedTaskIds, opId \in FreshOpIds(pool), title \in Titles :
        /\ putTaskLocal(d, NewTask(id, sessionUser[d], title, nowIso), TRUE, opId)
        /\ UNCHANGED <<clock, online, sessionUser, remote, meta, sync,
                       started, applied, outOfOrder, mIn, mOut, feedVars, cronVars>>

updateTask(d, pool) ==
    \E id \in Shown(d), opId \in FreshOpIds(pool), title \in Titles :
        /\ putTaskLocal(d, Patched(tasks[d][id], [title |-> title]), TRUE, opId)
        /\ UNCHANGED <<clock, online, sessionUser, remote, meta, sync,
                       started, applied, outOfOrder, mIn, mOut, feedVars, cronVars>>

handleDeleteTask(d, pool) ==
    \E id \in Shown(d), opId \in FreshOpIds(pool) :
        /\ deleteTaskLocal(d, sessionUser[d], id, TRUE, opId)
        /\ UNCHANGED <<clock, online, sessionUser, remote, meta, sync,
                       started, applied, outOfOrder, mIn, mOut, feedVars, cronVars>>

\* ------------------------------------------------------ fireSync / syncNow
SetSync(d, i, inst) == sync' = [sync EXCEPT ![d][i] = inst]

\* The end of flushQueue: syncNow goes on to pullUpdates.
ToPull(inst) == [inst EXCEPT !.pc = "pull", !.pending = <<>>, !.idx = 0, !.item = <<>>]

\* fireSync(userId) -> syncNow -> flushQueue reads the pending batch.  Timer,
\* 'online' event, change-feed listener, sync button and every local mutation
\* call it; it returns at once when the device is offline.
fireSync(d) ==
    /\ online[d]
    /\ \E i \in Slots :
        /\ sync[d][i].pc = "idle"
        /\ \A j \in Slots : j < i => sync[d][j].pc # "idle"
        /\ LET pending == getPendingQueue(queue[d], sessionUser[d])
               inst == [Idle EXCEPT !.user = sessionUser[d], !.pending = pending, !.idx = 1,
                                    !.pc = "flush"]
           IN SetSync(d, i, IF pending = <<>> THEN ToPull(inst) ELSE inst)
    /\ started[d] < MaxSyncs
    /\ started' = [started EXCEPT ![d] = @ + 1]
    /\ UNCHANGED <<clock, online, sessionUser, remote, tasks, queue, meta,
                   enqLog, applied, outOfOrder, mIn, mOut, feedVars, cronVars>>

\* Position of an operation in its device's enqueue order.
EnqPos(d, opId) == CHOOSE n \in DOMAIN enqLog[d] : enqLog[d][n].id = opId

\* Operations of the same device and task, enqueued after opId, already applied.
LaterApplied(d, op) ==
    {e \in Range(enqLog[d]) :
        /\ e.task_id = op.task_id
        /\ e.id \in applied
        /\ EnqPos(d, e.id) > EnqPos(d, op.id)}

\* Failures are injected while the stored retry count is below MaxRetries.
MayFail(d, op) == op.id \in DOMAIN queue[d] => queue[d][op.id].retries < MaxRetries

\* Row level security (tasks_update_own): an upsert onto a row of another
\* owner is refused.
Rejected(op) ==
    /\ op.type = "upsert_task"
    /\ op.task_id \in DOMAIN remote
    /\ remote[op.task_id].user_id # op.user_id

\* Mutant: the upsert sends the record the local store holds now.
FlushCallOk_SendsLocal(d, i) ==
    LET inst == sync[d][i]
        op == inst.pending[inst.idx]
        update == op.type = "upsert_task" /\ op.task_id \in DOMAIN remote
        task == IF op.task_id \in DOMAIN tasks[d] THEN tasks[d][op.task_id] ELSE op.payload
    IN /\ inst.pc = "flush"
       /\ online[d]
       /\ update => clock < MaxClock
       /\ clock' = IF update THEN clock + 1 ELSE clock
       /\ remote' = IF op.type = "upsert_task"
                    THEN RemoteUpsert(remote, normalizeTaskRecord(task), clock + 1)
                    ELSE RemoteDelete(remote, op.task_id, op.user_id)
       /\ applied' = applied \cup {op.id}
       /\ outOfOrder' = IF LaterApplied(d, op) # {} THEN outOfOrder \cup {op.id} ELSE outOfOrder
       /\ SetSync(d, i, [inst EXCEPT !.pc = "mark"])
       /\ UNCHANGED <<online, sessionUser, tasks, queue, meta, started, enqLog, mIn, mOut, feedVars, cronVars>>

\* The remote call of the current operation returns without error.
FlushCallOk(d, i) ==
    LET inst == sync[d][i]
        op == inst.pending[inst.idx]
        update == op.type = "upsert_task" /\ op.task_id \in DOMAIN remote
    IN /\ inst.pc = "flush"
       /\ online[d]
       /\ ~Rejected(op)
       /\ update => clock < MaxClock
       /\ clock' = IF update THEN clock + 1 ELSE clock
       /\ remote' = IF op.type = "upsert_task"
                    THEN RemoteUpsert(remote, normalizeTaskRecord(op.payload), clock + 1)
                    ELSE RemoteDelete(remote, op.task_id, op.user_id)
       /\ applied' = applied \cup {op.id}
       /\ outOfOrder' = IF LaterApplied(d, op) # {} THEN outOfOrder \cup {op.id} ELSE outOfOrder
       /\ SetSync(d, i, [inst EXCEPT !.pc = "mark"])
       /\ UNCHANGED <<online, sessionUser, tasks, queue, meta, started, enqLog, mIn, mOut, feedVars, cronVars>>


\* Mutant: a failed operation is marked processed like a successful one.
FlushCallFail_Removes(d, i) ==
    LET inst == sync[d][i]
    IN /\ inst.pc = "flush"
       /\ MayFail(d, inst.pending[inst.idx])
       /\ SetSync(d, i, [inst EXCEPT !.pc = "mark"])
       /\ UNCHANGED <<clock, online, sessionUser, remote, tasks, queue, meta,
                      started, enqLog, applied, outOfOrder, mIn, mOut, feedVars, cronVars>>

\* The remote call returns an error (or throws): nothing was applied.
FlushCallFail(d, i) ==
    LET inst == sync[d][i]
    IN /\ inst.pc = "flush"
       /\ MayFail(d, inst.pending[inst.idx]) \/ Rejected(inst.pending[inst.idx])
       /\ SetSync(d, i, [inst EXCEPT !.pc = "bump_get"])
       /\ UNCHANGED <<clock, online, sessionUser, remote, tasks, queue, meta,
                      started, enqLog, applied, outOfOrder, mIn, mOut, feedVars, cronVars>>

\* await markQueueProcessed(operation.id), then the next operation.
FlushMark(d, i) ==
    LET inst == sync[d][i]
        op == inst.pending[inst.idx]
    IN /\ inst.pc = "mark"
       /\ queue' = [queue EXCEPT ![d] = markQueueProcessed(queue[d], op.id)]
       /\ SetSync(d, i, IF inst.idx = Len(inst.pending)
                        THEN ToPull(inst)
                        ELSE [inst EXCEPT !.pc = "flush", !.idx = inst.idx + 1])
       /\ UNCHANGED <<clock, online, sessionUser, remote, tasks, meta,
                      started, enqLog, applied, outOfOrder, mIn, mOut, feedVars, cronVars>>

\* bumpQueueRetry: db.queue.get; a missing row ends it (and the batch).
FlushBumpGet(d, i) ==
    LET inst == sync[d][i]
        op == inst.pending[inst.idx]
    IN /\ inst.pc = "bump_get"
       /\ SetSync(d, i, IF op.id \in DOMAIN queue[d]
                        THEN [inst EXCEPT !.pc = "bump_put", !.item = <<queue[d][op.id]>>]
                        ELSE ToPull(inst))
       /\ UNCHANGED <<clock, online, sessionUser, remote, tasks, queue, meta,
                      started, enqLog, applied, outOfOrder, mIn, mOut, feedVars, cronVars>>

\* Mutant: after the bump the error is thrown on and syncNow ends without a pull.
FlushBumpPut_Rethrows(d, i) ==
    LET inst == sync[d][i]
    IN /\ inst.pc = "bump_put"
       /\ queue' = [queue EXCEPT ![d] = bumpQueueRetryPut(queue[d], inst.item[1])]
       /\ SetSync(d, i, Idle)
       /\ UNCHANGED <<clock, online, sessionUser, remote, tasks, meta,
                      started, enqLog, applied, outOfOrder, mIn, mOut, feedVars, cronVars>>

\* bumpQueueRetry: db.queue.put of the row read, retries + 1; then break.
FlushBumpPut(d, i) ==
    LET inst == sync[d][i]
    IN /\ inst.pc = "bump_put"
       /\ queue' = [queue EXCEPT ![d] = bumpQueueRetryPut(queue[d], inst.item[1])]
       /\ SetSync(d, i, ToPull(inst))
       /\ UNCHANGED <<clock, online, sessionUser, remote, tasks, meta,
                      started, enqLog, applied, outOfOrder, mIn, mOut, feedVars, cronVars>>

\* pullUpdates: read the cursor and select the rows after it.
PullSelect(d, i) ==
    LET inst == sync[d][i]
        stored == getMetaValue(meta[d], lastPullKey(inst.user))
        since == IF stored = Null THEN Epoch ELSE stored
    IN /\ inst.pc = "pull"
       /\ online[d]
       /\ \E data \in SelectResults(remote, inst.user, since) :
            SetSync(d, i, [inst EXCEPT !.pc = "merge",
                                       !.batch = [n \in DOMAIN data |-> normalizeTaskRecord(data[n])]])
       /\ UNCHANGED <<clock, online, sessionUser, remote, tasks, queue, meta,
                      started, enqLog, applied, outOfOrder, mIn, mOut, feedVars, cronVars>>

\* Mutant: the error of the select is dropped and the pull goes on as with no row.
PullError_Swallows(d, i) ==
    /\ sync[d][i].pc = "pull"
    /\ SetSync(d, i, [sync[d][i] EXCEPT !.pc = "merge", !.batch = <<>>])
    /\ UNCHANGED <<clock, online, sessionUser, remote, tasks, queue, meta,
                   started, enqLog, applied, outOfOrder, mIn, mOut, feedVars, cronVars>>

\* pullUpdates: the select returns an error; it is thrown through syncNow and
\* fireSync catches it.
PullError(d, i) ==
    /\ sync[d][i].pc = "pull"
    /\ SetSync(d, i, Idle)
    /\ UNCHANGED <<clock, online, sessionUser, remote, tasks, queue, meta,
                   started, enqLog, applied, outOfOrder, mIn, mOut, feedVars, cronVars>>

\* pullUpdates: upsertTasksFromRemote(normalized); an empty batch ends
\* syncNow, and fireSync records the success.
PullMerge(d, i) ==
    LET inst == sync[d][i]
    IN /\ inst.pc = "merge"
       /\ tasks' = [tasks EXCEPT ![d] = upsertTasksFromRemote(tasks[d], inst.batch)]
       /\ IF inst.batch = <<>>
          THEN SetSync(d, i, Idle)
          ELSE SetSync(d, i, [inst EXCEPT !.pc = "cursor"])
       /\ UNCHANGED <<clock, online, sessionUser, remote, queue, meta,
                      started, enqLog, applied, outOfOrder, mIn, mOut, feedVars, cronVars>>

\* pullUpdates: setMetaValue(lastPullKey, normalized.at(-1).updated_at);
\* syncNow is done and fireSync records the success.
PullCursor(d, i) ==
    LET inst == sync[d][i]
        latest == inst.batch[Len(inst.batch)].updated_at
    IN /\ inst.pc = "cursor"
       /\ meta' = [meta EXCEPT ![d] = setMetaValue(meta[d], lastPullKey(inst.user), latest)]
       /\ SetSync(d, i, Idle)
       /\ UNCHANGED <<clock, online, sessionUser, remote, tasks, queue,
                      started, enqLog, applied, outOfOrder, mIn, mOut, feedVars, cronVars>>

\* One device with every trigger of fireSync free to fire at any time.
Next ==
    \/ Tick
    \/ handleCreateTask("d1", MaxOps)
    \/ updateTask("d1", MaxOps)
    \/ handleDeleteTask("d1", MaxOps)
    \/ fireSync("d1")
    \/ \E i \in Slots : FlushCallOk("d1", i)
    \/ \E i \in Slots : FlushCallFail("d1", i)
    \/ \E i \in Slots : FlushMark("d1", i)
    \/ \E i \in Slots : FlushBumpGet("d1", i)
    \/ \E i \in Slots : FlushBumpPut("d1", i)
    \/ \E i \in Slots : PullSelect("d1", i)
    \/ \E i \in Slots : PullError("d1", i)
    \/ \E i \in Slots : PullMerge("d1", i)
    \/ \E i \in Slots : PullCursor("d1", i)

Spec == Init /\ [][Next]_vars

\* supabase.auth.onAuthStateChange: another account signs in on the device;
\* the effect's cleanup removes the channel of the account that left.
onAuthStateChange(d) ==
    /\ \E u \in Owners \ {sessionUser[d]} : sessionUser' = [sessionUser EXCEPT ![d] = u]
    /\ feed' = [feed EXCEPT ![d] = <<>>]
    /\ UNCHANGED <<clock, online, remote, tasks, queue, meta, sync, started, enqLog,
                   applied, outOfOrder, mIn, mOut, listener, hist, cronVars>>

\* The outbox of one device used by two accounts, filled by local mutations.
NextQueue ==
    \/ clock < MaxQueueClock /\ Tick
    \/ onAuthStateChange("d1")
    \/ handleCreateTask("d1", MaxQueued)
    \/ updateTask("d1", MaxQueued)
    \/ handleDeleteTask("d1", MaxQueued)

SpecQueue == Init /\ [][NextQueue]_vars

\* ------------------------------------------------------------ merge alone
\* Records a device can hold or receive, and the tables made of them.
Versions == [id : TaskIds, user_id : {"u1"}, title : Titles, updated_at : TicksPerMs..MaxClock]

Tables ==
    UNION {{t \in [ids -> Versions] : \A k \in ids : t[k].id = k} : ids \in SUBSET TaskIds}

InitMerge ==
    /\ Fresh
    /\ mIn \in [kind : {"in"}, local : Tables, a : Versions, b : Versions]
    /\ mOut = NoMerge

Frame == UNCHANGED <<clock, online, sessionUser, remote, tasks, queue, meta, sync,
                     started, enqLog, applied, outOfOrder, mIn, feedVars, cronVars>>

\* One batch (a pull's rows have distinct ids) merged once, and merged again.
MergeTwice ==
    LET batch == IF mIn.a.id = mIn.b.id THEN <<mIn.a>> ELSE <<mIn.a, mIn.b>>
        once == upsertTasksFromRemote(mIn.local, batch)
    IN /\ mOut = NoMerge
       /\ mOut' = [kind |-> "twice", first |-> once,
                   second |-> upsertTasksFromRemote(once, batch)]
       /\ Frame

\* Two versions of one task merged in either order.
MergeBothOrders ==
    /\ mOut = NoMerge
    /\ mIn.a.id = mIn.b.id
    /\ mOut' = [kind |-> "orders",
                first |-> upsertTasksFromRemote(upsertTasksFromRemote(mIn.local, <<mIn.a>>), <<mIn.b>>),
                second |-> upsertTasksFromRemote(upsertTasksFromRemote(mIn.local, <<mIn.b>>), <<mIn.a>>)]
    /\ Frame

NextMerge == MergeTwice \/ MergeBothOrders

SpecMerge == InitMerge /\ [][NextMerge]_vars

\* ------------------------------------------------------- two devices, one task
\* Device 1 created task t1 at T0 and pushed it, device 2 pulled it, and
\* device 1 went offline.
T0 == TicksPerMs

InitScenario ==
    LET v0 == NewTask("t1", "u1", "a", T0)
        have == Put(EmptyTable, "t1", v0)
        pulled == Put(EmptyTable, lastPullKey("u1"), T0)
    IN /\ clock = T0
       /\ online = [d \in Devices |-> d # "d1"]
       /\ sessionUser = [d \in Devices |-> "u1"]
       /\ remote = have
       /\ tasks = [d \in Devices |-> have]
       /\ queue = [d \in Devices |-> EmptyTable]
       /\ meta \in {[d \in Devices |-> pulled],
                    [d \in Devices |-> IF d = "d1" THEN EmptyTable ELSE pulled]}
       /\ sync = [d \in Devices |-> [i \in Slots |-> Idle]]
       /\ started = [d \in Devices |-> 0]
       /\ enqLog = [d \in Devices |->
                      IF d = "d1"
                      THEN <<[id |-> 1, task_id |-> "t1",
                              op |-> [id |-> 1, user_id |-> "u1", type |-> "upsert_task",
                                      task_id |-> "t1", payload |-> v0, created_at |-> T0,
                                      retries |-> 0]]>>
                      ELSE <<>>]
       /\ applied = {1}
       /\ outOfOrder = {}
       /\ mIn = NoMerge
       /\ mOut = NoMerge
       /\ FeedQuiet
       /\ CronQuiet

\* Device 2 edits the task once, in a later millisecond than T0.
EditOnDevice2 ==
    /\ enqLog["d2"] = <<>>
    /\ nowIso > T0
    /\ updateTask("d2", MaxOps)

\* Device 1 comes back online once device 2's edit has left its outbox.
Reconnect ==
    /\ enqLog["d2"] # <<>>
    /\ queue["d2"] = EmptyTable
    /\ GoOnline("d1")

NextScenario ==
    \/ Tick
    \/ EditOnDevice2
    \/ Reconnect
    \/ \E d \in Devices : fireSync(d)
    \/ \E d \in Devices, i \in Slots : FlushCallOk(d, i)
    \/ \E d \in Devices, i \in Slots : FlushCallFail(d, i)
    \/ \E d \in Devices, i \in Slots : FlushMark(d, i)
    \/ \E d \in Devices, i \in Slots : FlushBumpGet(d, i)
    \/ \E d \in Devices, i \in Slots : FlushBumpPut(d, i)
    \/ \E d \in Devices, i \in Slots : PullSelect(d, i)
    \/ \E d \in Devices, i \in Slots : PullError(d, i)
    \/ \E d \in Devices, i \in Slots : PullMerge(d, i)
    \/ \E d \in Devices, i \in Slots : PullCursor(d, i)

SpecScenario == InitScenario /\ [][NextScenario]_vars

\* ------------------------------------------------- the local store's writers
\* putTaskLocal and deleteTaskLocal called by any caller, with either value of
\* shouldQueue (an operation id is drawn only when one is enqueued).
OpIdFor(shouldQueue) == IF shouldQueue THEN FreshOpIds(MaxOps) ELSE {0}

CallPutTaskLocal(d) ==
    \E id \in TaskIds, title \in Titles, shouldQueue \in BOOLEAN :
        \E opId \in OpIdFor(shouldQueue) :
            /\ putTaskLocal(d, NewTask(id, sessionUser[d], title, nowIso), shouldQueue, opId)
            /\ UNCHANGED <<clock, online, sessionUser, remote, meta, sync,
                           started, applied, outOfOrder, mIn, mOut, feedVars, cronVars>>

CallDeleteTaskLocal(d) ==
    \E id \in TaskIds, shouldQueue \in BOOLEAN :
        \E opId \in OpIdFor(shouldQueue) :
            /\ deleteTaskLocal(d, sessionUser[d], id, shouldQueue, opId)
            /\ UNCHANGED <<clock, online, sessionUser, remote, meta, sync,
                           started, applied, outOfOrder, mIn, mOut, feedVars, cronVars>>

NextLocal ==
    \/ clock < MaxQueueClock /\ Tick
    \/ CallPutTaskLocal("d1")
    \/ CallDeleteTaskLocal("d1")

SpecLocal == Init /\ [][NextLocal]_vars

\* ------------------------------------------------------------ change feed
\* subscribeTaskChanges: the events of public.tasks with user_id = the owner the
\* device subscribed for reach the callback one at a time, in commit order.
ChangeEvent(type, row) == [eventType |-> type, new |-> row]
DeleteEvent(old) == [eventType |-> "DELETE", old |-> old]

\* The part of a deleted row the server publishes: the primary key, or nothing.
OldRows(id) == {[id |-> id], EmptyTable}

\* Mutant: a DELETE event is ignored.
HandleChange_IgnoresDelete(tbl, payload) ==
    IF payload.eventType = "DELETE"
    THEN tbl
    ELSE upsertTasksFromRemote(tbl, <<normalizeTaskRecord(payload.new)>>)

\* What the callback does to db.tasks.
HandleChange(tbl, payload) ==
    IF payload.eventType = "DELETE"
    THEN IF Has(payload.old, "id") THEN Delete(tbl, payload.old.id) ELSE tbl
    ELSE IF Has(payload, "new")
         THEN upsertTasksFromRemote(tbl, <<normalizeTaskRecord(payload.new)>>)
         ELSE tbl

\* The ids the callback passes to onTaskChanged.
Notified(payload) ==
    IF payload.eventType = "DELETE"
    THEN IF Has(payload.old, "id") THEN <<payload.old.id>> ELSE <<>>
    ELSE IF Has(payload, "new") THEN <<normalizeTaskRecord(payload.new).id>> ELSE <<>>

\* Mutant: the callback stores the row of an insert or update as a local edit
\* would, through putTaskLocal with its upsert operation.
TaskChangeHandler_Echoes(d) ==
    /\ feed[d] # <<>>
    /\ LET payload == Head(feed[d])
       IN /\ IF payload.eventType # "DELETE" /\ FreshOpIds(MaxOps) # {}
             THEN \E opId \in FreshOpIds(MaxOps) :
                     putTaskLocal(d, normalizeTaskRecord(payload.new), TRUE, opId)
             ELSE /\ tasks' = [tasks EXCEPT ![d] = HandleChange(tasks[d], payload)]
                  /\ UNCHANGED <<queue, enqLog>>
          /\ listener' = [listener EXCEPT ![d] = @ \o Notified(payload)]
    /\ feed' = [feed EXCEPT ![d] = Tail(@)]
    /\ UNCHANGED <<clock, online, sessionUser, remote, meta, sync,
                   started, applied, outOfOrder, mIn, mOut, hist, cronVars>>

\* The callback of subscribeTaskChanges handles the next event of the channel.
TaskChangeHandler(d) ==
    /\ feed[d] # <<>>
    /\ LET payload == Head(feed[d])
       IN /\ tasks' = [tasks EXCEPT ![d] = HandleChange(tasks[d], payload)]
          /\ listener' = [listener EXCEPT ![d] = @ \o Notified(payload)]
    /\ feed' = [feed EXCEPT ![d] = Tail(@)]
    /\ UNCHANGED <<clock, online, sessionUser, remote, queue, meta, sync,
                   started, enqLog, applied, outOfOrder, mIn, mOut, hist, cronVars>>

\* Another client of the owner upserts a task (its flushQueue): the row is
\* written as by RemoteUpsert and the change is published to the device.
ForeignUpsert(d) ==
    \E id \in TaskIds, title \in Titles :
        LET update == id \in DOMAIN remote
            after == RemoteUpsert(remote, NewTask(id, sessionUser[d], title, nowIso), clock + 1)
            payload == ChangeEvent(IF update THEN "UPDATE" ELSE "INSERT", after[id])
        IN /\ Len(hist.events) < MaxForeign
           /\ update => remote[id].user_id = sessionUser[d]
           /\ update => clock < MaxClock
           /\ clock' = IF update THEN clock + 1 ELSE clock
           /\ remote' = after
           /\ feed' = [feed EXCEPT ![d] = Append(@, payload)]
           /\ hist' = [hist EXCEPT !.events = Append(@, payload), !.remote1 = after]
           /\ UNCHANGED <<online, sessionUser, tasks, queue, meta, sync, started, enqLog,
                          applied, outOfOrder, mIn, mOut, listener, cronVars>>

\* Another client of the owner deletes a task: the row goes and the DELETE
\* event carries what the server publishes of the old row.
ForeignDelete(d) ==
    \E id \in {k \in DOMAIN remote : remote[k].user_id = sessionUser[d]} : \E old \in OldRows(id) :
        LET after == RemoteDelete(remote, id, sessionUser[d])
            payload == DeleteEvent(old)
        IN /\ Len(hist.events) < MaxForeign
           /\ remote' = after
           /\ feed' = [feed EXCEPT ![d] = Append(@, payload)]
           /\ hist' = [hist EXCEPT !.events = Append(@, payload), !.remote1 = after]
           /\ UNCHANGED <<clock, online, sessionUser, tasks, queue, meta, sync, started,
                          enqLog, applied, outOfOrder, mIn, mOut, listener, cronVars>>

\* Device 1 is subscribed and online; the remote holds nothing or a task
\* created at T0, which the device may already hold.
InitFeed ==
    LET v0 == NewTask("t1", "u1", "a", TicksPerMs)
        have == Put(EmptyTable, "t1", v0)
    IN /\ clock = TicksPerMs
       /\ online = [d \in Devices |-> TRUE]
       /\ sessionUser = [d \in Devices |-> "u1"]
       /\ remote \in {EmptyTable, have}
       /\ tasks \in {[d \in Devices |-> EmptyTable],
                     [d \in Devices |-> IF d = "d1" THEN remote ELSE EmptyTable]}
       /\ queue = [d \in Devices |-> EmptyTable]
       /\ meta = [d \in Devices |-> EmptyTable]
       /\ sync = [d \in Devices |-> [i \in Slots |-> Idle]]
       /\ started = [d \in Devices |-> 0]
       /\ enqLog = [d \in Devices |-> <<>>]
       /\ applied = {}
       /\ outOfOrder = {}
       /\ mIn = NoMerge
       /\ mOut = NoMerge
       /\ feed = [d \in Devices |-> <<>>]
       /\ listener = [d \in Devices |-> <<>>]
       /\ hist = [kind |-> "feed", local0 |-> tasks["d1"], remote0 |-> remote,
                  events |-> <<>>, remote1 |-> remote]
       /\ CronQuiet

\* One device: its syncNow runs (no local mutation, so nothing to flush), the
\* writes of other clients and the change-feed callback, in any interleaving.
NextFeed ==
    \/ Tick
    \/ ForeignUpsert("d1")
    \/ ForeignDelete("d1")
    \/ TaskChangeHandler("d1")
    \/ fireSync("d1")
    \/ \E i \in Slots : PullSelect("d1", i)
    \/ \E i \in Slots : PullError("d1", i)
    \/ \E i \in Slots : PullMerge("d1", i)
    \/ \E i \in Slots : PullCursor("d1", i)

SpecFeed == InitFeed /\ [][NextFeed]_vars

\* ----------------------------------------------------------------- backlog
\* The remote holds one row more than a pull returns; their updated_at lie in
\* BacklogStamps, so rows may share one.  Nothing writes the remote.
BacklogIds == {"t1", "t2", "t3"}
BacklogStamps == TicksPerMs..(TicksPerMs + 2)

InitBacklog ==
    /\ clock = MaxClock
    /\ online = [d \in Devices |-> TRUE]
    /\ sessionUser = [d \in Devices |-> "u1"]
    /\ \E stamp \in [BacklogIds -> BacklogStamps] :
          remote = [id \in BacklogIds |-> NewTask(id, "u1", "a", stamp[id])]
    /\ tasks = [d \in Devices |-> EmptyTable]
    /\ queue = [d \in Devices |-> EmptyTable]
    /\ meta = [d \in Devices |-> EmptyTable]
    /\ sync = [d \in Devices |-> [i \in Slots |-> Idle]]
    /\ started = [d \in Devices |-> 0]
    /\ enqLog = [d \in Devices |-> <<>>]
    /\ applied = {}
    /\ outOfOrder = {}
    /\ mIn = NoMerge
    /\ mOut = NoMerge
    /\ FeedQuiet
    /\ CronQuiet

NextBacklog ==
    \/ fireSync("d1")
    \/ \E i \in Slots : PullSelect("d1", i)
    \/ \E i \in Slots : PullError("d1", i)
    \/ \E i \in Slots : PullMerge("d1", i)
    \/ \E i \in Slots : PullCursor("d1", i)

SpecBacklog == InitBacklog /\ [][NextBacklog]_vars

\* ------------------------------------------------------ due-task dispatcher
\* Server time in SpecDispatch is the shared clock; it advances by half minutes
\* from 01:00 UTC of day 0, and a date is a day number, a time of day a minute.
Minute == 60000 * TicksPerMs
CronStart == 60 * Minute

\* The zones of the model: '' and 'UTC' are UTC, 'Etc/GMT-1' is one hour ahead.
Zones == {"", "UTC", "Etc/GMT-1"}
ZoneOffset(zone) == IF zone = "Etc/GMT-1" THEN 60 ELSE 0

\* make_timestamptz(y, m, d, h, mi, s, zone): the wall time of the zone as an instant.
make_timestamptz(date, time, zone) ==
    (date * 1440 + time - ZoneOffset(zone)) * Minute

task_due_at_utc(task_row) ==
    IF task_row.scheduled_date = Null \/ task_row.due_time = Null
    THEN Null
    ELSE make_timestamptz(task_row.scheduled_date, task_row.due_time,
                          IF task_row.timezone = "" THEN "UTC" ELSE task_row.timezone)

greatest(a, b) == IF a >= b THEN a ELSE b

\* Mutant: the end of the window belongs to it.
DueIds_ClosedWindow(tbl, now, window_minutes) ==
    {id \in DOMAIN tbl :
        /\ tbl[id].status = "todo"
        /\ tbl[id].scheduled_date # Null
        /\ tbl[id].due_time # Null
        /\ task_due_at_utc(tbl[id]) >= now
        /\ task_due_at_utc(tbl[id]) <= now + greatest(window_minutes, 1) * Minute
        /\ \/ tbl[id].last_notified_at = Null
           \/ tbl[id].last_notified_at < task_due_at_utc(tbl[id])}

\* Mutant: a task that was notified once is never selected again.
DueIds_OnceOnly(tbl, now, window_minutes) ==
    {id \in DOMAIN tbl :
        /\ tbl[id].status = "todo"
        /\ tbl[id].scheduled_date # Null
        /\ tbl[id].due_time # Null
        /\ task_due_at_utc(tbl[id]) >= now
        /\ task_due_at_utc(tbl[id]) < now + greatest(window_minutes, 1) * Minute
        /\ tbl[id].last_notified_at = Null}

\* Mutant: the window opens at the due instant instead of closing there.
DueIds_AfterDue(tbl, now, window_minutes) ==
    {id \in DOMAIN tbl :
        /\ tbl[id].status = "todo"
        /\ tbl[id].scheduled_date # Null
        /\ tbl[id].due_time # Null
        /\ task_due_at_utc(tbl[id]) <= now
        /\ now < task_due_at_utc(tbl[id]) + greatest(window_minutes, 1) * Minute
        /\ \/ tbl[id].last_notified_at = Null
           \/ tbl[id].last_notified_at < task_due_at_utc(tbl[id])}

\* The where clause of get_due_tasks at now() = now.
DueIds(tbl, now, window_minutes) ==
    {id \in DOMAIN tbl :
        /\ tbl[id].status = "todo"
        /\ tbl[id].scheduled_date # Null
        /\ tbl[id].due_time # Null
        /\ task_due_at_utc(tbl[id]) >= now
        /\ task_due_at_utc(tbl[id]) < now + greatest(window_minutes, 1) * Minute
        /\ \/ tbl[id].last_notified_at = Null
           \/ tbl[id].last_notified_at < task_due_at_utc(tbl[id])}

DueTaskRow(t) ==
    [id |-> t.id, user_id |-> t.user_id, title |-> t.title,
     scheduled_date |-> t.scheduled_date, due_time |-> t.due_time,
     timezone |-> t.timezone, due_at |-> task_due_at_utc(t)]

\* order by due_at asc: every order of the selected rows that ascends by
\* due_at (rows with equal due_at come in either order).
get_due_tasks(tbl, now, window_minutes) ==
    LET ids == DueIds(tbl, now, window_minutes)
        n == Cardinality(ids)
    IN {[k \in 1..n |-> DueTaskRow(tbl[o[k]])] :
          o \in {f \in [1..n -> ids] :
                   /\ \A a, b \in 1..n : a # b => f[a] # f[b]
                   /\ \A a, b \in 1..n :
                        a < b => task_due_at_utc(tbl[f[a]]) <= task_due_at_utc(tbl[f[b]])}}

\* Mutant: marking leaves last_notified_at alone.
mark_tasks_notified_OnlyTouches(tbl, task_ids, now) ==
    [id \in DOMAIN tbl |->
        IF id \in task_ids THEN [tbl[id] EXCEPT !.updated_at = now] ELSE tbl[id]]

mark_tasks_notified(tbl, task_ids, now) ==
    [id \in DOMAIN tbl |->
        IF id \in task_ids
        THEN [tbl[id] EXCEPT !.last_notified_at = now, !.updated_at = now]
        ELSE tbl[id]]

\* canRun: the scheduler's header, no configured secret, or the secret as bearer.
canRun(request, secret) ==
    \/ request.cronHeader
    \/ secret = ""
    \/ request.bearer = secret

\* Number(request.query.window ?? 5), with 5 again when that is not finite.
WindowOf(query) ==
    CASE query = "0" -> 0
      [] query = "1" -> 1
      [] query = "2" -> 2
      [] OTHER -> 5

Requests ==
    [cronHeader : BOOLEAN, bearer : {"undefined", "s"},
     window : {"undefined", "x", "0", "1", "2"}]

\* Mutant: only 410 means that the endpoint is gone.
isUnsubscribedError_Only410(outcome) == outcome = "410"

isUnsubscribedError(outcome) == outcome = "404" \/ outcome = "410"

\* What sendWebPush does: it resolves, or throws with a status code or without.
SendOutcomes == {"ok", "404", "410", "500", "no status"}

\* The handler has answered: its locals are gone, the status is kept.
Respond(code) ==
    [CronIdle EXCEPT !.status = code, !.runs = cron.runs]

CronFrame ==
    UNCHANGED <<online, sessionUser, tasks, queue, meta, sync, started, enqLog,
                applied, outOfOrder, mIn, mOut, feed, listener>>

\* What is remembered of the run in progress: the (task, subscription) pairs
\* sendWebPush was called for and the tasks one of whose pushes went out.
RunHist == [kind |-> "cron", attempts |-> {}, delivered |-> {}]

\* Half a minute passes.
Elapse ==
    /\ clock < CronStart + MaxElapsed * (Minute \div 2)
    /\ clock' = clock + Minute \div 2
    /\ UNCHANGED <<remote, cronVars, hist>>
    /\ CronFrame

\* optionalEnv('CRON_SECRET'): unset (or empty), or set.
Secrets == {"", "s"}

\* handler, up to the rpc call, for one request and one configuration: 401
\* unless canRun.
HandleRequest(request, secret) ==
    /\ cron.pc = "idle"
    /\ cron.runs < MaxRuns
    /\ cron' = IF canRun(request, secret)
               THEN [CronIdle EXCEPT !.pc = "query",
                                     !.windowMinutes = WindowOf(request.window),
                                     !.runs = cron.runs + 1]
               ELSE [CronIdle EXCEPT !.status = 401, !.runs = cron.runs + 1]
    /\ hist' = IF canRun(request, secret) THEN RunHist ELSE NoHist
    /\ UNCHANGED <<clock, remote, subs, notifiedDue>>
    /\ CronFrame

CronRequest ==
    \E request \in Requests, secret \in Secrets : HandleRequest(request, secret)

\* rpc('get_due_tasks'): no due task answers 200 at once.
CronQuery ==
    /\ cron.pc = "query"
    /\ \E due \in get_due_tasks(remote, clock, cron.windowMinutes) :
          /\ cron' = IF due = <<>>
                     THEN Respond(200)
                     ELSE [cron EXCEPT !.pc = "subscriptions", !.due = due]
          /\ hist' = IF due = <<>> THEN NoHist ELSE hist
    /\ UNCHANGED <<clock, remote, subs, notifiedDue>>
    /\ CronFrame

\* dueError, subError: thrown and answered with 500.
CronQueryError ==
    /\ cron.pc \in {"query", "subscriptions"}
    /\ cron' = Respond(500)
    /\ hist' = NoHist
    /\ UNCHANGED <<clock, remote, subs, notifiedDue>>
    /\ CronFrame

\* The push_subscriptions of the owners of the due tasks, in some order.
CronLoadSubscriptions ==
    /\ cron.pc = "subscriptions"
    /\ LET userIds == {cron.due[k].user_id : k \in DOMAIN cron.due}
           ids == {id \in DOMAIN subs : subs[id].user_id \in userIds}
           n == Cardinality(ids)
       IN \E o \in {f \in [1..n -> ids] : \A a, b \in 1..n : a # b => f[a] # f[b]} :
             cron' = [cron EXCEPT !.pc = "send",
                                  !.subscriptions = [k \in 1..n |-> subs[o[k]]],
                                  !.task = 1, !.sub = 1]
    /\ UNCHANGED <<clock, remote, subs, notifiedDue, hist>>
    /\ CronFrame

\* byUser.get(task.user_id) ?? []
SelectSeq2(seq, user) == SelectSeq(seq, LAMBDA row : row.user_id = user)
userSubscriptions == SelectSeq2(cron.subscriptions, cron.due[cron.task].user_id)

\* A task whose owner has no subscription is passed over.
CronSkipTask ==
    /\ cron.pc = "send"
    /\ cron.task <= Len(cron.due)
    /\ userSubscriptions = <<>>
    /\ cron' = [cron EXCEPT !.task = @ + 1]
    /\ UNCHANGED <<clock, remote, subs, notifiedDue, hist>>
    /\ CronFrame

\* Mutant: the first push that goes out ends the task's loop.
CronSend_FirstSuccess ==
    /\ cron.pc = "send"
    /\ cron.task <= Len(cron.due)
    /\ cron.sub <= Len(userSubscriptions)
    /\ \E outcome \in SendOutcomes :
          /\ cron' = [cron EXCEPT
                        !.sub = IF outcome = "ok" THEN Len(userSubscriptions) + 1 ELSE @ + 1,
                        !.deliveredToAtLeastOneDevice = @ \/ outcome = "ok",
                        !.sentCount = IF outcome = "ok" THEN @ + 1 ELSE @]
          /\ subs' = IF isUnsubscribedError(outcome)
                     THEN Delete(subs, userSubscriptions[cron.sub].id)
                     ELSE subs
          /\ hist' = [hist EXCEPT
                        !.attempts = @ \cup {<<cron.due[cron.task].id,
                                               userSubscriptions[cron.sub].id>>},
                        !.delivered = IF outcome = "ok"
                                      THEN @ \cup {cron.due[cron.task].id} ELSE @]
    /\ UNCHANGED <<clock, remote, notifiedDue>>
    /\ CronFrame

\* sendWebPush to the next subscription of the task's owner, with one outcome;
\* a subscription the push service reports gone is deleted.
SendTo(outcome) ==
    /\ cron.pc = "send"
    /\ cron.task <= Len(cron.due)
    /\ cron.sub <= Len(userSubscriptions)
    /\ cron' = [cron EXCEPT
                  !.sub = @ + 1,
                  !.deliveredToAtLeastOneDevice = @ \/ outcome = "ok",
                  !.sentCount = IF outcome = "ok" THEN @ + 1 ELSE @]
    /\ subs' = IF isUnsubscribedError(outcome)
               THEN Delete(subs, userSubscriptions[cron.sub].id)
               ELSE subs
    /\ hist' = [hist EXCEPT
                  !.attempts = @ \cup {<<cron.due[cron.task].id,
                                         userSubscriptions[cron.sub].id>>},
                  !.delivered = IF outcome = "ok"
                                THEN @ \cup {cron.due[cron.task].id} ELSE @]
    /\ UNCHANGED <<clock, remote, notifiedDue>>
    /\ CronFrame

CronSend == \E outcome \in SendOutcomes : SendTo(outcome)

\* Mutant: a task counts as sent once its subscriptions were tried.
CronTaskDone_AlwaysSent ==
    /\ cron.pc = "send"
    /\ cron.task <= Len(cron.due)
    /\ userSubscriptions # <<>>
    /\ cron.sub > Len(userSubscriptions)
    /\ cron' = [cron EXCEPT
                  !.sentTaskIds = @ \cup {cron.due[cron.task].id},
                  !.task = @ + 1, !.sub = 1, !.deliveredToAtLeastOneDevice = FALSE]
    /\ UNCHANGED <<clock, remote, subs, notifiedDue, hist>>
    /\ CronFrame

\* After the last subscription: the task counts as sent if one push went out.
CronTaskDone ==
    /\ cron.pc = "send"
    /\ cron.task <= Len(cron.due)
    /\ userSubscriptions # <<>>
    /\ cron.sub > Len(userSubscriptions)
    /\ cron' = [cron EXCEPT
                  !.sentTaskIds = IF cron.deliveredToAtLeastOneDevice
                                  THEN @ \cup {cron.due[cron.task].id} ELSE @,
                  !.task = @ + 1, !.sub = 1, !.deliveredToAtLeastOneDevice = FALSE]
    /\ UNCHANGED <<clock, remote, subs, notifiedDue, hist>>
    /\ CronFrame

\* rpc('mark_tasks_notified') when a task was sent, then 200.  The update is
\* a transaction of its own: whatever the server does next has a later now().
CronMark ==
    /\ cron.pc = "send"
    /\ cron.task > Len(cron.due)
    /\ remote' = IF cron.sentTaskIds # {}
                 THEN mark_tasks_notified(remote, cron.sentTaskIds, clock)
                 ELSE remote
    /\ clock' = IF cron.sentTaskIds # {} THEN clock + 1 ELSE clock
    /\ notifiedDue' = [id \in DOMAIN notifiedDue \cup (cron.sentTaskIds \cap DOMAIN remote) |->
                         IF id \in cron.sentTaskIds
                         THEN task_due_at_utc(remote[id])
                         ELSE notifiedDue[id]]
    /\ hist' = NoHist
    /\ cron' = Respond(200)
    /\ UNCHANGED subs
    /\ CronFrame

\* Mutant: the failed mark has stamped the tasks all the same.
CronMarkError_Stamps ==
    /\ cron.pc = "send"
    /\ cron.task > Len(cron.due)
    /\ cron.sentTaskIds # {}
    /\ cron' = Respond(500)
    /\ hist' = NoHist
    /\ remote' = mark_tasks_notified(remote, cron.sentTaskIds, clock)
    /\ UNCHANGED <<clock, subs, notifiedDue>>
    /\ CronFrame

\* markError: thrown and answered with 500.
CronMarkError ==
    /\ cron.pc = "send"
    /\ cron.task > Len(cron.due)
    /\ cron.sentTaskIds # {}
    /\ cron' = Respond(500)
    /\ hist' = NoHist
    /\ UNCHANGED <<clock, remote, subs, notifiedDue>>
    /\ CronFrame

\* The times of day a client moves the due time of t1 to.
DueTimes == {61, 62, 121}

\* A device of the owner changes the due time of t1 and its flush upserts the
\* snapshot: the whole row as the device holds it, with the last_notified_at
\* it last pulled (the stored one, or none when it has not seen the mark).
ForeignEditDue ==
    \E time \in DueTimes :
      \E held \in {remote["t1"].last_notified_at, Null} :
        /\ time # remote["t1"].due_time
        /\ remote' = RemoteUpsert(remote,
                                  [remote["t1"] EXCEPT !.due_time = time,
                                                       !.last_notified_at = held],
                                  clock)
        /\ UNCHANGED <<clock, cronVars, hist>>
        /\ CronFrame

\* A row of public.tasks with the columns the dispatcher reads.
ScheduledTask(id, user, status, date, time, zone) ==
    [id |-> id, user_id |-> user, title |-> "a", status |-> status,
     scheduled_date |-> date, due_time |-> time, timezone |-> zone,
     last_notified_at |-> Null, updated_at |-> Epoch]

\* t1 is any task of u1 around 01:01 UTC; t2, if there, is a todo task of u1
\* or u2 due at 01:01 or 01:02 UTC.  u1 has two push subscriptions or none,
\* u2 none.
InitDispatch ==
    /\ clock = CronStart
    /\ online = [d \in Devices |-> TRUE]
    /\ sessionUser = [d \in Devices |-> "u1"]
    /\ \E status \in {"todo", "done"}, date \in {Null, 0}, time \in {Null, 61, 121},
          zone \in Zones, more \in {0, 61, 62}, owner \in Owners :
          remote = IF more = 0
                   THEN Put(EmptyTable, "t1", ScheduledTask("t1", "u1", status, date, time, zone))
                   ELSE Put(Put(EmptyTable, "t1", ScheduledTask("t1", "u1", status, date, time, zone)),
                            "t2", ScheduledTask("t2", owner, "todo", 0, more, "UTC"))
    /\ subs \in {EmptyTable,
                 [id \in {"s1", "s2"} |-> [id |-> id, user_id |-> "u1"]]}
    /\ cron = CronIdle
    /\ notifiedDue = EmptyTable
    /\ tasks = [d \in Devices |-> EmptyTable]
    /\ queue = [d \in Devices |-> EmptyTable]
    /\ meta = [d \in Devices |-> EmptyTable]
    /\ sync = [d \in Devices |-> [i \in Slots |-> Idle]]
    /\ started = [d \in Devices |-> 0]
    /\ enqLog = [d \in Devices |-> <<>>]
    /\ applied = {}
    /\ outOfOrder = {}
    /\ mIn = NoMerge
    /\ mOut = NoMerge
    /\ FeedQuiet

NextDispatch ==
    \/ Elapse
    \/ CronRequest
    \/ CronQuery
    \/ CronQueryError
    \/ CronLoadSubscriptions
    \/ CronSkipTask
    \/ CronSend
    \/ CronTaskDone
    \/ CronMark
    \/ CronMarkError

SpecDispatch == InitDispatch /\ [][NextDispatch]_vars

\* The dispatcher while the owner reschedules: t1 is a todo task of u1 due at
\* 01:01 UTC, u1 has two push subscriptions, and a device moves the due time.
InitReschedule ==
    /\ InitDispatch
    /\ remote = Put(EmptyTable, "t1", ScheduledTask("t1", "u1", "todo", 0, 61, "UTC"))
    /\ subs # EmptyTable

NextReschedule ==
    \/ Elapse
    \/ ForeignEditDue
    \/ CronRequest
    \/ CronQuery
    \/ CronQueryError
    \/ CronLoadSubscriptions
    \/ CronSkipTask
    \/ CronSend
    \/ CronTaskDone
    \/ CronMark
    \/ CronMarkError

SpecReschedule == InitReschedule /\ [][NextReschedule]_vars

\* ===================================================================== claims
\* The local table after a merge of `batch` into `before`, record by record,
\* by the last-write-wins rule on updated_at.
LastWriteWins(before, batch, after) ==
    /\ DOMAIN after = DOMAIN before \cup {batch[n].id : n \in DOMAIN batch}
    /\ \A k \in DOMAIN before \ {batch[n].id : n \in DOMAIN batch} : after[k] = before[k]
    /\ \A n \in DOMAIN batch :
         LET incoming == batch[n]
         IN IF incoming.id \notin DOMAIN before
               \/ incoming.updated_at > before[incoming.id].updated_at
            THEN after[incoming.id] = incoming
            ELSE after[incoming.id] = before[incoming.id]

\* C1: every merge of a pulled batch leaves, for each incoming record, the
\* incoming record if there was none or its updated_at is strictly greater than
\* the stored one, and the stored record otherwise.
C1_MergeIsLastWriteWins ==
    [][\A i \in Slots :
         PullMerge("d1", i) => LastWriteWins(tasks["d1"], sync["d1"][i].batch, tasks'["d1"])]_vars

\* C2: at most one syncNow is in flight per device and owner.
C2_SingleFlight ==
    \A d \in Devices, u \in Owners :
        Cardinality({i \in InFlight(d) : sync[d][i].user = u}) <= 1

\* A flush ends on a failed operation: bumpQueueRetry returns and the loop breaks.
FlushStops(d, i) ==
    /\ sync[d][i].pc \in {"bump_get", "bump_put"}
    /\ sync'[d][i].pc \notin {"bump_get", "bump_put"}

\* C3: when a flush stops at its first failed operation, the operations before
\* it were applied and are gone from the queue, the failed one is queued with
\* its retries one higher, and the ones after it are queued unchanged and are
\* not attempted (the flush is over).
C3_FirstFailureStopsBatch ==
    [][\A d \in Devices, i \in Slots :
         FlushStops(d, i) =>
            LET batch == sync[d][i].pending
                k == sync[d][i].idx
            IN /\ \A j \in 1..(k - 1) :
                    batch[j].id \in applied' /\ batch[j].id \notin DOMAIN queue'[d]
               /\ batch[k].id \in DOMAIN queue'[d]
               /\ queue'[d][batch[k].id] = [batch[k] EXCEPT !.retries = @ + 1]
               /\ \A j \in (k + 1)..Len(batch) :
                    batch[j].id \in DOMAIN queue'[d] /\ queue'[d][batch[j].id] = batch[j]
               /\ sync'[d][i].pc = "pull"]_vars

\* C4: no operation is applied to the remote after a later-enqueued operation
\* of the same task (and device) has been applied.
C4_AppliedInEnqueueOrder == outOfOrder = {}

\* Operations that were enqueued on d and are no longer in its queue.
Left(d) == {e.id : e \in Range(enqLog[d])} \ DOMAIN queue[d]

\* C6: every operation that has left the queue was applied to the remote.
C6_RemovedOnlyAfterApplied == \A d \in Devices : Left(d) \subseteq applied

C6_Witness == \E d \in Devices : Left(d) # {} /\ queue[d] # EmptyTable

\* C7: within one syncNow the select of pullUpdates is issued only after the
\* flush loop is over (empty batch, last operation processed, or stopped at the
\* first failure), and a failed operation leads on to the pull.
C7_FlushThenPull ==
    [][\A d \in Devices, i \in Slots :
         LET inst == sync[d][i]
             pc2 == sync'[d][i].pc
         IN /\ (pc2 = "merge" /\ inst.pc # "merge") => inst.pc = "pull"
            /\ (pc2 = "pull" /\ inst.pc # "pull") =>
                  \/ inst.pc = "idle" /\ getPendingQueue(queue[d], sessionUser[d]) = <<>>
                  \/ inst.pc = "mark" /\ inst.idx = Len(inst.pending)
                  \/ inst.pc \in {"bump_get", "bump_put"}
            /\ inst.pc \in {"bump_get", "bump_put"} => pc2 \in {"bump_get", "bump_put", "pull"}
            /\ inst.pc = "flush" => pc2 \in {"flush", "mark", "bump_get"}
            /\ inst.pc = "mark" => pc2 \in {"mark", "flush", "pull"}]_vars

\* A select was issued by a syncNow whose flush had stopped on a failure.
C7_Witness ==
    \E d \in Devices, i \in Slots :
        /\ sync[d][i].pc = "merge"
        /\ \E k \in DOMAIN queue[d] : queue[d][k].retries > 0

\* C5: getPendingQueue returns operations of the queue that belong to the
\* owner, each once, as many as are pending up to SYNC_BATCH_SIZE, in ascending
\* created_at order, and none that is left out is older than one returned.
C5_PendingBatch ==
    \A u \in Owners :
        LET q == queue["d1"]
            batch == getPendingQueue(q, u)
            mine == {k \in DOMAIN q : q[k].user_id = u}
            got == {batch[n].id : n \in DOMAIN batch}
        IN /\ got \subseteq mine
           /\ \A n \in DOMAIN batch : batch[n] = q[batch[n].id]
           /\ Len(batch) = Min(Cardinality(mine), SYNC_BATCH_SIZE)
           /\ Cardinality(got) = Len(batch)
           /\ \A i, j \in DOMAIN batch : i < j => batch[i].created_at <= batch[j].created_at
           /\ \A k \in mine \ got : \A n \in DOMAIN batch : batch[n].created_at <= q[k].created_at

\* More than a batch is pending for one owner, enqueued in different
\* milliseconds, next to an operation of the other owner.
C5_Witness ==
    LET q == queue["d1"]
        mine == {k \in DOMAIN q : q[k].user_id = "u1"}
    IN /\ Cardinality(mine) > SYNC_BATCH_SIZE
       /\ \E k, l \in mine : k < l /\ q[k].created_at > q[l].created_at
       /\ \E k \in DOMAIN q : q[k].user_id = "u2"

\* C9: merging a batch a second time changes nothing.
C9_MergeIdempotent == mOut.kind = "twice" => mOut.second = mOut.first

\* The batch has two records, one of which replaced the stored one.
C9_Witness ==
    /\ mOut.kind = "twice"
    /\ mIn.a.id # mIn.b.id
    /\ mIn.a.id \in DOMAIN mIn.local
    /\ mOut.first[mIn.a.id] = mIn.a
    /\ mOut.first # mIn.local

LocalNotOlder ==
    /\ mIn.a.id \in DOMAIN mIn.local
    /\ toMs(mIn.local[mIn.a.id].updated_at) >= toMs(mIn.a.updated_at)
    /\ toMs(mIn.local[mIn.a.id].updated_at) >= toMs(mIn.b.updated_at)

Completes(d, i) ==
    /\ sync[d][i].pc \in {"merge", "cursor"}
    /\ sync'[d][i].pc = "idle"

Pulled(tbl) ==
    {[n \in DOMAIN data |-> normalizeTaskRecord(data[n])] :
        data \in SelectResults(tbl, "u1", Epoch)}

\* The local tables of the executions in which the one event is handled
\* entirely after the one syncNow (whose select saw the remote before or after
\* the foreign write, or failed), or entirely before it (the select then saw
\* the remote after the write).
SerialOutcomes ==
    LET payload == hist.events[1]
        handled == HandleChange(hist.local0, payload)
    IN {HandleChange(upsertTasksFromRemote(hist.local0, batch), payload) :
            batch \in Pulled(hist.remote0) \cup Pulled(hist.remote1)}
       \cup {upsertTasksFromRemote(handled, batch) : batch \in Pulled(hist.remote1)}
       \cup {handled}

\* One syncNow and one change event, both over.
OneSyncOneEvent ==
    /\ hist.kind = "feed"
    /\ Len(hist.events) = 1
    /\ feed["d1"] = <<>>
    /\ started["d1"] = 1
    /\ InFlight("d1") = {}

\* C11: when one change event was handled while one syncNow was in flight, in
\* whatever interleaving, the local task table is one that handling the event
\* entirely before or entirely after the syncNow gives.
C11_HandlerInterleavingIsSerial == OneSyncOneEvent => tasks["d1"] \in SerialOutcomes

\* The pull cursor of device d for owner u (the epoch when none is stored).
Cursor(d, u) ==
    LET stored == getMetaValue(meta[d], lastPullKey(u))
    IN IF stored = Null THEN Epoch ELSE stored

\* C12: with the remote unchanged, no row is skipped for good: when no pull is
\* running, every remote row of the owner at or before the cursor (which no
\* later pull selects) has been merged into the local store.
C12_NoRowSkipped ==
    InFlight("d1") = {} =>
        \A id \in DOMAIN remote :
            (remote[id].user_id = "u1" /\ remote[id].updated_at <= Cursor("d1", "u1"))
                => id \in DOMAIN tasks["d1"]

\* The greatest updated_at of a batch.
MaxUpdatedAt(batch) ==
    CHOOSE m \in {batch[n].updated_at : n \in DOMAIN batch} :
        \A n \in DOMAIN batch : batch[n].updated_at <= m

\* C13: the cursor never decreases; the pull of a non-empty batch sets it to
\* the batch's greatest updated_at, and the pull of an empty batch leaves the
\* stored cursor as it is.
C13_CursorIsMaxSeen ==
    [][/\ Cursor("d1", "u1")' >= Cursor("d1", "u1")
       /\ \A i \in Slots :
            /\ PullCursor("d1", i) =>
                  Cursor("d1", "u1")' = MaxUpdatedAt(sync["d1"][i].batch)
            /\ (PullMerge("d1", i) /\ sync["d1"][i].batch = <<>>) => meta' = meta]_vars

\* The operation as it was enqueued on device d.
EnqOp(d, opId) == enqLog[d][EnqPos(d, opId)].op

\* C14: a local put or delete leaves every operation already queued as it is;
\* every queued operation keeps the type, payload and created_at it was
\* enqueued with; and a flushed upsert sends the payload taken at enqueue time.
C14_PayloadIsSnapshot ==
    [][/\ enqLog'["d1"] # enqLog["d1"] =>
            \A k \in DOMAIN queue["d1"] :
                k \in DOMAIN queue'["d1"] /\ queue'["d1"][k] = queue["d1"][k]
       /\ \A k \in DOMAIN queue'["d1"] :
            [queue'["d1"][k] EXCEPT !.retries = 0] = EnqOp("d1", k)'
       /\ \A i \in Slots :
            LET op == sync["d1"][i].pending[sync["d1"][i].idx]
            IN (FlushCallOk("d1", i) /\ op.type = "upsert_task") =>
                  remote' = RemoteUpsert(remote, normalizeTaskRecord(EnqOp("d1", op.id).payload),
                                         clock + 1)]_vars

\* An upsert was applied whose payload is not what the local store holds now:
\* the task was edited again, and that edit is still queued.
C14_Witness ==
    \E e \in Range(enqLog["d1"]) :
        /\ e.id \in applied
        /\ e.op.type = "upsert_task"
        /\ e.task_id \in DOMAIN tasks["d1"]
        /\ tasks["d1"][e.task_id].title # e.op.payload.title
        /\ e.task_id \in DOMAIN remote
        /\ remote[e.task_id].title = e.op.payload.title
        /\ \E k \in DOMAIN queue["d1"] : k # e.id /\ queue["d1"][k].task_id = e.task_id

\* The queue after exactly one new operation `op` was appended to it.
Appended(d, op) ==
    /\ DOMAIN queue'[d] = DOMAIN queue[d] \cup {op.id}
    /\ op.id \notin DOMAIN queue[d]
    /\ op.id \notin UsedOpIds
    /\ queue'[d][op.id] = op
    /\ \A k \in DOMAIN queue[d] : queue'[d][k] = queue[d][k]

\* C15: putTaskLocal writes the record and deleteTaskLocal removes it, leaving
\* the other records; with shouldQueue exactly one operation is appended (an
\* upsert with the task as payload, or a delete with the task id) under a fresh
\* id with retries 0, and without it the queue is unchanged.
C15_LocalWriteAndEnqueue ==
    [][\A shouldQueue \in BOOLEAN, opId \in 0..MaxOps :
         /\ \A id \in TaskIds, title \in Titles :
              LET task == NewTask(id, "u1", title, nowIso)
              IN putTaskLocal("d1", task, shouldQueue, opId) =>
                   /\ tasks'["d1"] = Put(tasks["d1"], id, task)
                   /\ IF shouldQueue
                      THEN Appended("d1", [id |-> opId, user_id |-> "u1", type |-> "upsert_task",
                                           task_id |-> id, payload |-> task,
                                           created_at |-> nowIso, retries |-> 0])
                      ELSE queue' = queue
         /\ \A id \in TaskIds :
              deleteTaskLocal("d1", "u1", id, shouldQueue, opId) =>
                   /\ id \notin DOMAIN tasks'["d1"]
                   /\ \A k \in DOMAIN tasks["d1"] \ {id} :
                        k \in DOMAIN tasks'["d1"] /\ tasks'["d1"][k] = tasks["d1"][k]
                   /\ IF shouldQueue
                      THEN Appended("d1", [id |-> opId, user_id |-> "u1", type |-> "delete_task",
                                           task_id |-> id, payload |-> [id |-> id],
                                           created_at |-> nowIso, retries |-> 0])
                      ELSE queue' = queue]_vars

\* Records were written and removed both with and without an operation: the
\* store holds a task no operation mentions, and a queued delete waits next to
\* a queued upsert.
C15_Witness ==
    /\ \E id \in DOMAIN tasks["d1"] :
          \A k \in DOMAIN queue["d1"] : queue["d1"][k].task_id # id
    /\ \E k, l \in DOMAIN queue["d1"] :
          queue["d1"][k].type = "delete_task" /\ queue["d1"][l].type = "upsert_task"

\* C16: when the bookkeeping of a failed attempt is over, the operation is in
\* the queue with the retries it had stored plus one, and it is the first
\* operation the next flush of its owner attempts.
C16_FailedStaysAtHead ==
    [][\A i \in Slots :
         FlushStops("d1", i) =>
            LET op == sync["d1"][i].pending[sync["d1"][i].idx]
            IN /\ op.id \in DOMAIN queue["d1"]
               /\ op.id \in DOMAIN queue'["d1"]
               /\ queue'["d1"][op.id].retries = queue["d1"][op.id].retries + 1
               /\ getPendingQueue(queue'["d1"], op.user_id)[1].id = op.id]_vars

\* C17: when the callback handles an INSERT or UPDATE event, the normalized row
\* is merged by last-write-wins: it replaces the local record if there is none
\* or its updated_at is strictly greater, and otherwise changes nothing.
C17_FeedMergeIsLastWriteWins ==
    [][(/\ TaskChangeHandler("d1")
        /\ Head(feed["d1"]).eventType # "DELETE")
       => LastWriteWins(tasks["d1"],
                        <<normalizeTaskRecord(Head(feed["d1"]).new)>>,
                        tasks'["d1"])]_vars

\* C18: when the callback handles a DELETE event that carries a task id, the
\* local table loses exactly that record, the change listener is called with
\* that id, nothing is merged and the outbox is unchanged.
C18_FeedDeleteRemovesRecord ==
    [][(/\ TaskChangeHandler("d1")
        /\ Head(feed["d1"]).eventType = "DELETE"
        /\ Has(Head(feed["d1"]).old, "id"))
       => LET id == Head(feed["d1"]).old.id
          IN /\ id \notin DOMAIN tasks'["d1"]
             /\ DOMAIN tasks'["d1"] = DOMAIN tasks["d1"] \ {id}
             /\ \A k \in DOMAIN tasks'["d1"] : tasks'["d1"][k] = tasks["d1"][k]
             /\ listener'["d1"] = Append(listener["d1"], id)
             /\ queue' = queue]_vars

\* A DELETE event for t1, which the device held, has been handled.
C18_Witness ==
    /\ hist.kind = "feed"
    /\ "t1" \in DOMAIN hist.local0
    /\ hist.events = <<DeleteEvent([id |-> "t1"])>>
    /\ feed["d1"] = <<>>
    /\ "t1" \notin DOMAIN tasks["d1"]
    /\ listener["d1"] = <<"t1">>

\* C19: a scan never selects a task that a dispatcher run has marked as
\* notified while the task's due instant is the one it had when it was marked.
C19_NoSecondSelection ==
    [][CronQuery =>
         \A k \in DOMAIN cron'.due :
            LET id == cron'.due[k].id
            IN ~ (/\ id \in DOMAIN notifiedDue
                  /\ notifiedDue[id] = task_due_at_utc(remote[id]))]_vars

\* The tasks a scan at `now` with a look-ahead of `width` is to return.
SelectedBy(tbl, now, width) ==
    {id \in DOMAIN tbl :
        /\ tbl[id].status = "todo"
        /\ tbl[id].scheduled_date # Null
        /\ tbl[id].due_time # Null
        /\ now <= task_due_at_utc(tbl[id])
        /\ task_due_at_utc(tbl[id]) < now + width
        /\ \/ tbl[id].last_notified_at = Null
           \/ tbl[id].last_notified_at < task_due_at_utc(tbl[id])}

\* `due` holds each task of `ids` once, with its due instant, ascending.
ScanReturns(due, ids) ==
    /\ {due[k].id : k \in DOMAIN due} = ids
    /\ Len(due) = Cardinality(ids)
    /\ \A k \in DOMAIN due : due[k].due_at = task_due_at_utc(remote[due[k].id])
    /\ \A a, b \in DOMAIN due : a < b => due[a].due_at <= due[b].due_at

\* C20 as stated: the scan returns exactly the eligible tasks whose due instant
\* is in [now, now + window_minutes), ascending by due instant.
C20_ScanWindowAsRequested ==
    [][CronQuery =>
         ScanReturns(cron'.due,
                     SelectedBy(remote, clock, cron.windowMinutes * Minute))]_vars

\* C20: the scan returns exactly the eligible tasks whose due instant is in
\* [now, now + window), ascending by due instant, where window is
\* window_minutes but at least one minute; a task with last_notified_at at or
\* after its due instant is never returned.
C20_ScanWindowAtLeastOneMinute ==
    [][CronQuery =>
         /\ ScanReturns(cron'.due,
                        SelectedBy(remote, clock, greatest(cron.windowMinutes, 1) * Minute))
         /\ \A k \in DOMAIN cron'.due :
               LET t == remote[cron'.due[k].id]
               IN t.last_notified_at = Null \/ t.last_notified_at < task_due_at_utc(t)]_vars

\* The second run of the dispatcher has scanned and returned t2 alone: t1, a
\* todo task whose due instant is given in a zone one hour ahead of UTC, was
\* marked at or after its due instant by the first run and stays out.
C20_Witness ==
    /\ cron.pc = "subscriptions"
    /\ cron.runs = 2
    /\ Len(cron.due) = 1
    /\ cron.due[1].id = "t2"
    /\ "t1" \in DOMAIN remote
    /\ remote["t1"].timezone = "Etc/GMT-1"
    /\ remote["t1"].status = "todo"
    /\ remote["t1"].last_notified_at # Null
    /\ remote["t1"].last_notified_at >= task_due_at_utc(remote["t1"])

\* ------------------------------------------------------------ C21 .. C30
\* The todo tasks with a date and a time that were never notified.
NeverNotified(tbl) ==
    {id \in DOMAIN tbl :
        /\ tbl[id].status = "todo"
        /\ tbl[id].scheduled_date # Null
        /\ tbl[id].due_time # Null
        /\ tbl[id].last_notified_at = Null}

ScannedIds(due) == {due[k].id : k \in DOMAIN due}

\* C21 as stated: a never-notified todo task with date, time and zone is
\* returned by a scan exactly when now is in [due instant, due instant + window).
C21_SelectedFromDueInstant ==
    [][CronQuery =>
         \A id \in NeverNotified(remote) :
            id \in ScannedIds(cron'.due)
            <=> /\ task_due_at_utc(remote[id]) <= clock
                /\ clock < task_due_at_utc(remote[id]) + cron.windowMinutes * Minute]_vars

\* C21: a never-notified todo task with date, time and zone is returned by a
\* scan exactly when its due instant is in [now, now + window), that is when
\* now is in (due instant - window, due instant], window being at least a minute.
C21_SelectedUntilDueInstant ==
    [][CronQuery =>
         \A id \in NeverNotified(remote) :
            id \in ScannedIds(cron'.due)
            <=> /\ task_due_at_utc(remote[id])
                      - greatest(cron.windowMinutes, 1) * Minute < clock
                /\ clock <= task_due_at_utc(remote[id])]_vars

\* A scan has returned the never-notified t1 half a minute or more before its
\* due instant.
C21_Witness ==
    /\ cron.pc = "subscriptions"
    /\ \E k \in DOMAIN cron.due :
          /\ cron.due[k].id = "t1"
          /\ cron.due[k].due_at > clock
    /\ remote["t1"].last_notified_at = Null

\* C22: a scan returns every todo task that a dispatcher run has marked and
\* whose due instant was since moved to a strictly later one that lies in the
\* scan's window.
C22_RescheduledIsSelectedAgain ==
    [][CronQuery =>
         \A id \in DOMAIN notifiedDue \cap DOMAIN remote :
            (/\ remote[id].status = "todo"
             /\ task_due_at_utc(remote[id]) # Null
             /\ task_due_at_utc(remote[id]) > notifiedDue[id]
             /\ clock <= task_due_at_utc(remote[id])
             /\ task_due_at_utc(remote[id])
                   < clock + greatest(cron.windowMinutes, 1) * Minute)
            => id \in ScannedIds(cron'.due)]_vars

\* t1 was marked after its due instant had passed, its due time was then moved
\* to a later one by a device that had pulled the mark, and a scan has
\* returned it again.
C22_Witness ==
    /\ cron.pc = "subscriptions"
    /\ "t1" \in DOMAIN notifiedDue
    /\ "t1" \in ScannedIds(cron.due)
    /\ remote["t1"].last_notified_at # Null
    /\ remote["t1"].last_notified_at > notifiedDue["t1"]
    /\ task_due_at_utc(remote["t1"]) > remote["t1"].last_notified_at

\* The (task, subscription) pairs of a batch: each due task with each loaded
\* subscription of its owner.
FanOut(due, subscriptions) ==
    {<<due[p[1]].id, subscriptions[p[2]].id>> :
        p \in {q \in (DOMAIN due) \X (DOMAIN subscriptions) :
                 subscriptions[q[2]].user_id = due[q[1]].user_id}}

\* C23: the step that marks comes when a push was attempted for every pair of
\* the batch, it stamps exactly the tasks one of whose pushes went out and
\* leaves every other task as it was, it ends the run, and no other step of
\* the dispatcher changes a task.
C23_MarkOnceAfterBatch ==
    [][/\ CronMark =>
            /\ hist.attempts = FanOut(cron.due, cron.subscriptions)
            /\ \A id \in DOMAIN remote :
                  IF id \in hist.delivered
                  THEN /\ remote'[id].last_notified_at = clock
                       /\ remote'[id].updated_at = clock
                  ELSE remote'[id] = remote[id]
            /\ DOMAIN remote' = DOMAIN remote
            /\ cron'.pc = "idle"
       /\ ~ CronMark => remote' = remote]_vars

\* A run has marked t1 and not t2, which is due at the same instant and whose
\* owner has no push subscription.
C23_Witness ==
    /\ cron.pc = "idle"
    /\ cron.status = 200
    /\ DOMAIN remote = {"t1", "t2"}
    /\ task_due_at_utc(remote["t1"]) = task_due_at_utc(remote["t2"])
    /\ remote["t1"].status = "todo"
    /\ remote["t1"].last_notified_at # Null
    /\ remote["t2"].user_id = "u2"
    /\ remote["t2"].last_notified_at = Null
    /\ Cardinality(DOMAIN subs) = 1

\* C24: while the batch is processed, a push was attempted for every
\* subscription of the owner of every task before the current one and for
\* every subscription before the current one of the current task, whatever
\* the outcomes were; when the loop is over that is every pair of the batch.
C24_FanOut ==
    cron.pc = "send" =>
       LET before == SubSeq(cron.due, 1, cron.task - 1)
           current == IF cron.task <= Len(cron.due)
                      THEN {<<cron.due[cron.task].id, userSubscriptions[n].id>> :
                               n \in 1..(cron.sub - 1)}
                      ELSE {}
       IN hist.attempts = FanOut(before, cron.subscriptions) \cup current

\* The batch of two tasks of u1 is processed: for the first task the push to
\* the first subscription failed (the subscription was reported gone) and the
\* push to the second one went out; for the second task, tried on both
\* subscriptions all the same, no push went out.
C24_Witness ==
    /\ cron.pc = "send"
    /\ Len(cron.due) = 2
    /\ cron.task > Len(cron.due)
    /\ cron.due[2].user_id = "u1"
    /\ Len(cron.subscriptions) = 2
    /\ cron.subscriptions[1].id \notin DOMAIN subs
    /\ cron.subscriptions[2].id \in DOMAIN subs
    /\ cron.sentTaskIds = {cron.due[1].id}
    /\ cron.sentCount = 1
    /\ hist.attempts = FanOut(cron.due, cron.subscriptions)

\* C25: a push that fails with 404 or 410 removes the subscription it was sent
\* to and no other; a push that goes out or fails otherwise removes none; and
\* no other step of the dispatcher removes a subscription.
C25_DeletedIffGone ==
    [][/\ \A outcome \in SendOutcomes :
            SendTo(outcome) =>
               IF outcome \in {"404", "410"}
               THEN /\ userSubscriptions[cron.sub].id \notin DOMAIN subs'
                    /\ \A id \in DOMAIN subs \ {userSubscriptions[cron.sub].id} :
                          id \in DOMAIN subs' /\ subs'[id] = subs[id]
               ELSE subs' = subs
       /\ ~ CronSend => subs' = subs]_vars

\* Both subscriptions were tried for the first task and no push went out: one
\* was reported gone and is deleted, the other failed otherwise and is kept.
C25_Witness ==
    /\ cron.pc = "send"
    /\ cron.task = 1
    /\ Len(cron.subscriptions) = 2
    /\ cron.sub = 3
    /\ cron.sentCount = 0
    /\ Cardinality(DOMAIN subs) = 1

\* C26: a request without the scheduler's header and without a bearer equal to
\* the configured secret is answered 401 and starts nothing, whether a secret
\* is configured or not.
C26_UnauthorizedRejected ==
    [][\A request \in Requests, secret \in Secrets :
         (/\ HandleRequest(request, secret)
          /\ ~ request.cronHeader
          /\ request.bearer # secret)
         => /\ cron'.status = 401
            /\ cron'.pc = "idle"
            /\ remote' = remote
            /\ subs' = subs]_vars

\* `after` is `before` with last_notified_at and updated_at of the tasks of
\* `ids` set to `now`, and nothing else changed.
Stamped(before, ids, now, after) ==
    /\ DOMAIN after = DOMAIN before
    /\ \A id \in DOMAIN before :
          IF id \in ids
          THEN after[id] = [before[id] EXCEPT !.last_notified_at = now,
                                              !.updated_at = now]
          ELSE after[id] = before[id]

\* C27: a mark sets last_notified_at and updated_at of exactly the tasks of its
\* id set to its now() and changes nothing else; a second mark of the same id
\* set, at any later time, leaves what one mark at that later time leaves.
C27_MarkStampsExactlyIds ==
    [][CronMark =>
         /\ Stamped(remote, cron.sentTaskIds, clock, remote')
         /\ \A later \in {clock', clock' + Minute} :
               Stamped(remote, cron.sentTaskIds, later,
                       mark_tasks_notified(remote', cron.sentTaskIds, later))]_vars

\* t1, the only task, has been marked by two runs: each mark is a transaction
\* that moved the clock on by a tick, and the stored stamp is the second one's.
C27_Witness ==
    /\ cron.pc = "idle"
    /\ cron.status = 200
    /\ cron.runs = 2
    /\ DOMAIN remote = {"t1"}
    /\ (clock - CronStart) % (Minute \div 2) = 2
    /\ remote["t1"].last_notified_at = clock - 1

LastNotified(tbl) == [id \in DOMAIN tbl |-> tbl[id].last_notified_at]

\* C28: a run that ends on a failed due-task query, a failed load of the
\* subscriptions or a failed mark answers 500 and leaves every task as it
\* was, and last_notified_at changes only in the mark step, which answers 200.
C28_AbortMarksNothing ==
    [][/\ (CronQueryError \/ CronMarkError) =>
            /\ cron'.status = 500
            /\ cron'.pc = "idle"
            /\ remote' = remote
       /\ LastNotified(remote') # LastNotified(remote) =>
            /\ CronMark
            /\ cron'.status = 200]_vars

\* The first run has sent a push for a due task, one subscription was reported
\* gone, and the run ended with 500 on the failed mark: no task is notified.
C28_Witness ==
    /\ cron.pc = "idle"
    /\ cron.status = 500
    /\ cron.runs = 1
    /\ Cardinality(DOMAIN subs) = 1
    /\ \A id \in DOMAIN remote : remote[id].last_notified_at = Null
    /\ clock = CronStart

\* ------------------------------------------------- the writers of db.tasks
\* The button of a task row: updateTask(task.id, { status: isDone ? 'todo' : 'done' }).
toggleDone(d, pool) ==
    \E id \in Shown(d), opId \in FreshOpIds(pool) :
        LET isDone == tasks[d][id].status = "done"
            patch == [status |-> IF isDone THEN "todo" ELSE "done"]
        IN /\ putTaskLocal(d, Patched(tasks[d][id], patch), TRUE, opId)
           /\ UNCHANGED <<clock, online, sessionUser, remote, meta, sync,
                          started, applied, outOfOrder, mIn, mOut, feedVars, cronVars>>

\* The tasks a backup file may hold: isTaskArray asks only for a string id and
\* a string title.  "" is a status that is not a string of the schema and Null
\* an absent stamp; the stamps are ISO strings of whole milliseconds.
BackupTasks ==
    [id : TaskIds, title : {"a"}, status : {"done", "todo", ""},
     completed_at : {Null, TicksPerMs}, updated_at : {Null, TicksPerMs}]

\* The record importBackupPayload stores for a task of the file.
\* Mutant: the import stamps every record it stores with the time of the import.
normalized_Restamps(task, userId) ==
    [id |-> task.id, user_id |-> userId, title |-> task.title,
     status |-> IF Has(task, "status") /\ task.status = "done" THEN "done" ELSE "todo",
     completed_at |-> IF Has(task, "completed_at") THEN task.completed_at ELSE Null,
     updated_at |-> nowIso]

normalized(task, userId) ==
    [id |-> task.id, user_id |-> userId, title |-> task.title,
     status |-> IF Has(task, "status") /\ task.status = "done" THEN "done" ELSE "todo",
     completed_at |-> IF Has(task, "completed_at") THEN task.completed_at ELSE Null,
     updated_at |-> IF Has(task, "updated_at") /\ task.updated_at # Null
                    THEN task.updated_at ELSE nowIso]

\* importBackupPayload(sessionUserId, parsed) for a file of one task.
importBackupPayload(d, pool) ==
    \E task \in BackupTasks, opId \in FreshOpIds(pool) :
        /\ putTaskLocal(d, normalized(task, sessionUser[d]), TRUE, opId)
        /\ UNCHANGED <<clock, online, sessionUser, remote, meta, sync,
                       started, applied, outOfOrder, mIn, mOut, feedVars, cronVars>>

migrationMetaKey(userId) ==
    IF userId = "u1" THEN "legacy_migration_done_u1" ELSE "legacy_migration_done_u2"

\* What localStorage's fg_tasks parses to: no task, or one open or completed.
LegacyLists == {<<>>, <<[text |-> "a", completed |-> FALSE]>>,
                <<[text |-> "a", completed |-> TRUE]>>}

toLegacyTaskRecord(legacy, id, userId) ==
    [id |-> id, user_id |-> userId, title |-> legacy.text,
     status |-> IF legacy.completed THEN "done" ELSE "todo",
     completed_at |-> IF legacy.completed THEN nowIso ELSE Null,
     updated_at |-> nowIso]

\* migrateLegacyDataIfNeeded at bootstrap: once per user, and the legacy tasks
\* are taken over only into a table that has no task of the user.
migrateLegacyDataIfNeeded(d, pool) ==
    LET userId == sessionUser[d]
        key == migrationMetaKey(userId)
        alreadyDone == Has(meta[d], key) /\ meta[d][key] = "yes"
    IN /\ ~alreadyDone
       /\ \E legacyTasks \in LegacyLists :
            IF Shown(d) = {} /\ Len(legacyTasks) > 0
            THEN \E id \in TaskIds \ UsedTaskIds, opId \in FreshOpIds(pool) :
                    putTaskLocal(d, toLegacyTaskRecord(legacyTasks[1], id, userId), TRUE, opId)
            ELSE UNCHANGED <<tasks, queue, enqLog>>
       /\ meta' = [meta EXCEPT ![d] = setMetaValue(@, key, "yes")]
       /\ UNCHANGED <<clock, online, sessionUser, remote, sync,
                      started, applied, outOfOrder, mIn, mOut, feedVars, cronVars>>

\* The rows of the user the server may hand out: written by a client that keeps
\* completed_at with the status, stamped by the server at an instant up to now.
RemoteRows(userId) ==
    {[id |-> id, user_id |-> userId, title |-> "b", status |-> st,
      completed_at |-> IF st = "done" THEN at ELSE Null, updated_at |-> at] :
        id \in TaskIds, st \in {"todo", "done"}, at \in 1..clock}

\* pullRemoteChanges and the change-feed callback hand a row of the server to
\* upsertTasksFromRemote.
MergeRemoteRow(d) ==
    \E row \in RemoteRows(sessionUser[d]) :
        /\ tasks' = [tasks EXCEPT ![d] =
                        upsertTasksFromRemote(@, <<normalizeTaskRecord(row)>>)]
        /\ tasks' # tasks
        /\ UNCHANGED <<clock, online, sessionUser, remote, queue, meta, sync, started,
                       enqLog, applied, outOfOrder, mIn, mOut, feedVars, cronVars>>

\* Device 1 with every writer of its tasks table: the forms and buttons of the
\* page, the import of a file, the legacy migration, and the merge of the rows
\* of the server.
NextRecords ==
    \/ clock < MaxRecordClock /\ Tick
    \/ handleCreateTask("d1", MaxOps)
    \/ updateTask("d1", MaxOps)
    \/ toggleDone("d1", MaxOps)
    \/ handleDeleteTask("d1", MaxOps)
    \/ importBackupPayload("d1", MaxOps)
    \/ migrateLegacyDataIfNeeded("d1", MaxOps)
    \/ MergeRemoteRow("d1")

SpecRecords == InitFeed /\ [][NextRecords]_vars

\* C29: in the local task table a task has a completion stamp exactly when
\* its status is done.
C29_CompletedIffDone ==
    \A id \in DOMAIN tasks["d1"] :
        (tasks["d1"][id].completed_at # Null) <=> (tasks["d1"][id].status = "done")

\* C29 without the import of a file: the other writers keep the two fields
\* together.
C29_CompletedIffDoneUnlessImported ==
    [][C29_CompletedIffDone => importBackupPayload("d1", MaxOps) \/ C29_CompletedIffDone']_vars

\* C30: a write that replaces the stored record of a task stores a strictly
\* later updated_at.
C30_UpdatedAtStrictlyIncreases ==
    [][\A id \in DOMAIN tasks["d1"] \cap DOMAIN tasks'["d1"] :
          tasks'["d1"][id] # tasks["d1"][id]
              => tasks'["d1"][id].updated_at > tasks["d1"][id].updated_at]_vars

\* ------------------------------------------------------ export and import
\* where('user_id').equals(userId).toArray(): the owner's tasks in key order.
TaskIdOrder == <<"t1", "t2">>

RECURSIVE RowsInOrder(_, _, _)
RowsInOrder(tbl, userId, n) ==
    IF n > Len(TaskIdOrder)
    THEN <<>>
    ELSE LET id == TaskIdOrder[n]
             rest == RowsInOrder(tbl, userId, n + 1)
         IN IF id \in DOMAIN tbl /\ tbl[id].user_id = userId
            THEN <<tbl[id]>> \o rest
            ELSE rest

getAllUserTasks(tbl, userId) == RowsInOrder(tbl, userId, 1)

\* JSON.parse(JSON.stringify(value)) of a record: strings come back as they
\* were; a property without a value is not written, so the reader finds it
\* absent.
Nullable == {"completed_at", "updated_at"}

JsonRoundTrip(task) ==
    [f \in {g \in DOMAIN task : g \in Nullable => task[g] # Null} |-> task[f]]

\* The tasks of the file serializeBackup and downloadJson produce.
serializeBackup(tbl, userId) ==
    LET rows == getAllUserTasks(tbl, userId)
    IN [kind |-> "backup", user_id |-> userId,
        tasks |-> [n \in DOMAIN rows |-> JsonRoundTrip(rows[n])]]

\* The export button, pressed once: the file leaves the device; what the
\* owner's table held is remembered beside it.
handleExport(d) ==
    /\ mIn' = serializeBackup(tasks[d], sessionUser[d])
    /\ mOut' = [kind |-> "exported",
                tasks |-> [k \in Shown(d) |-> tasks[d][k]]]
    /\ mIn = NoMerge
    /\ UNCHANGED <<clock, online, sessionUser, remote, tasks, queue, meta, sync,
                   started, enqLog, applied, outOfOrder, feedVars, cronVars>>

MaxOf(S) == CHOOSE x \in S : \A y \in S : y <= x

\* importBackupPayload's loop over parsed.tasks: each task is normalised and
\* stored with putTaskLocal(normalized, true), whose operation gets a new id.
RECURSIVE importLoop(_, _, _, _)
importLoop(st, file, userId, opId) ==
    IF file = <<>>
    THEN st
    ELSE LET task == normalized(Head(file), userId)
             q == enqueueTaskUpsert(st.queue, opId, task)
         IN importLoop([tasks |-> Put(st.tasks, task.id, task),
                        queue |-> q,
                        enqLog |-> Append(st.enqLog, Enqueued(q, opId))],
                       Tail(file), userId, opId + 1)

\* The import of the exported file on a device of the signed-in owner.
handleImportFile(d) ==
    LET st == importLoop([tasks |-> tasks[d], queue |-> queue[d], enqLog |-> enqLog[d]],
                         mIn.tasks, sessionUser[d], MaxOf(UsedOpIds \cup {0}) + 1)
    IN /\ mIn.kind = "backup"
       /\ Len(enqLog[d]) + Len(mIn.tasks) <= MaxOps
       /\ tasks' = [tasks EXCEPT ![d] = st.tasks]
       /\ queue' = [queue EXCEPT ![d] = st.queue]
       /\ enqLog' = [enqLog EXCEPT ![d] = st.enqLog]
       /\ UNCHANGED <<clock, online, sessionUser, remote, meta, sync,
                      started, applied, outOfOrder, mIn, mOut, feedVars, cronVars>>

\* Device 1 creates, completes, merges and exports tasks; device 2, of the same
\* owner and empty at first, imports the files.
NextBackup ==
    \/ clock < MaxRecordClock /\ Tick
    \/ handleCreateTask("d1", MaxOps)
    \/ toggleDone("d1", MaxOps)
    \/ MergeRemoteRow("d1")
    \/ handleExport("d1")
    \/ handleImportFile("d2")

SpecBackup == Init /\ [][NextBackup]_vars

\* The ids of a table with the updated_at of each.
Stamps(tbl) == [k \in DOMAIN tbl |-> tbl[k].updated_at]

\* C31: importing the file serializeBackup made of an owner's tasks into an
\* empty store of the same owner gives a task table with the same ids and,
\* for each id, the same updated_at.
C31_RoundTrip ==
    [][handleImportFile("d2") /\ tasks["d2"] = EmptyTable
          /\ sessionUser["d2"] = mIn.user_id
          => Stamps(tasks'["d2"]) = Stamps(mOut.tasks)]_vars

\* Two tasks, one of them completed, were exported and imported into the
\* empty store at a later millisecond.
C31_Witness ==
    /\ mIn.kind = "backup"
    /\ Len(mIn.tasks) = 2
    /\ DOMAIN tasks["d2"] = TaskIds
    /\ Len(enqLog["d2"]) = 2
    /\ \E id \in TaskIds : tasks["d2"][id].status = "done"
    /\ \A id \in TaskIds : tasks["d2"][id].updated_at < nowIso

\* ------------------------------------------------------------ C32 .. C40
\* C32: when the select of pullUpdates returns an error, syncNow ends there
\* (the error is thrown to fireSync: no merge and no cursor write follow) and
\* the pull has changed neither the local tasks nor the pull cursor.
C32_PullErrorLeavesLocal ==
    [][\A i \in Slots :
          /\ sync["d1"][i].pc = "pull"
          /\ sync'["d1"][i] # sync["d1"][i]
          /\ ~PullSelect("d1", i)
          => /\ sync'["d1"][i] = Idle
             /\ tasks' = tasks
             /\ meta' = meta
             /\ queue' = queue]_vars

\* The remote held a task of the owner from the start and nothing else was
\* written; a syncNow of the device, which holds nothing, is over, and the
\* task was not merged and no cursor was stored: its select failed.
C32_Witness ==
    /\ hist.kind = "feed"
    /\ hist.events = <<>>
    /\ "t1" \in DOMAIN remote
    /\ tasks["d1"] = EmptyTable
    /\ meta["d1"] = EmptyTable
    /\ started["d1"] >= 1
    /\ InFlight("d1") = {}

\* Device 1 holds the task the remote holds; it deletes it while other clients
\* edit it, and its syncNow and its change-feed callback run in any
\* interleaving, remote calls failing or not.
InitTombstone ==
    /\ InitFeed
    /\ "t1" \in DOMAIN remote
    /\ tasks["d1"] = remote

NextTombstone ==
    \/ clock < MaxRecordClock /\ Tick
    \/ handleDeleteTask("d1", 1)
    \/ ForeignUpsert("d1")
    \/ TaskChangeHandler("d1")
    \/ fireSync("d1")
    \/ \E i \in Slots : FlushCallOk("d1", i)
    \/ \E i \in Slots : FlushCallFail("d1", i)
    \/ \E i \in Slots : FlushMark("d1", i)
    \/ \E i \in Slots : FlushBumpGet("d1", i)
    \/ \E i \in Slots : FlushBumpPut("d1", i)
    \/ \E i \in Slots : PullSelect("d1", i)
    \/ \E i \in Slots : PullError("d1", i)
    \/ \E i \in Slots : PullMerge("d1", i)
    \/ \E i \in Slots : PullCursor("d1", i)

SpecTombstone == InitTombstone /\ [][NextTombstone]_vars

\* The tasks whose delete operation is in the device's queue and was not
\* applied to the remote.
DeletePending(d) ==
    {op.task_id : op \in {o \in Range(queue[d]) : o.type = "delete_task" /\ o.id \notin applied}}

\* The ids of the rows a step hands to upsertTasksFromRemote: the batch of a
\* pull that merges, or the row of the change event the callback handles.
Merging(d) ==
    UNION {{sync[d][i].batch[n].id : n \in DOMAIN sync[d][i].batch} :
              i \in {j \in Slots : sync[d][j].pc = "merge" /\ sync'[d][j].pc # "merge"}}
      \cup {Head(feed[d]).new.id : x \in {y \in {1} : /\ feed[d] # <<>>
                                                       /\ feed'[d] = Tail(feed[d])
                                                       /\ Head(feed[d]).eventType # "DELETE"}}

\* C33: nothing of a local delete survives in the task table, so a row of the
\* remote that is merged while the delete operation is still queued puts the
\* deleted task back into the local store.
C33_MergeResurrectsDeleted ==
    [][\A id \in (DeletePending("d1") \cap Merging("d1")) \ DOMAIN tasks["d1"] :
          id \in DOMAIN tasks'["d1"]]_vars

\* The task is in the local store again, in the version another client wrote
\* after the delete was enqueued, and the delete operation is still queued.
C33_Witness ==
    \E op \in Range(queue["d1"]) :
        /\ op.type = "delete_task"
        /\ op.id \notin applied
        /\ op.task_id \in DOMAIN tasks["d1"]
        /\ op.task_id \in DOMAIN remote
        /\ tasks["d1"][op.task_id] = remote[op.task_id]
        /\ remote[op.task_id].updated_at > op.created_at

\* One device used by two accounts: the export of a file and its import by
\* whoever is signed in, one edit of a task by another client of its owner,
\* the change-feed callback and syncNow.
EditElsewhere ==
    /\ hist.events = <<>>
    /\ ForeignUpsert("d1")
    /\ DOMAIN remote' = DOMAIN remote

NextOwners ==
    \/ clock < MaxRecordClock /\ Tick
    \/ onAuthStateChange("d1")
    \/ handleExport("d1")
    \/ handleImportFile("d1")
    \/ EditElsewhere
    \/ TaskChangeHandler("d1")
    \/ fireSync("d1")
    \/ \E i \in Slots : FlushCallOk("d1", i)
    \/ \E i \in Slots : FlushCallFail("d1", i)
    \/ \E i \in Slots : FlushMark("d1", i)
    \/ \E i \in Slots : FlushBumpGet("d1", i)
    \/ \E i \in Slots : FlushBumpPut("d1", i)
    \/ \E i \in Slots : PullSelect("d1", i)
    \/ \E i \in Slots : PullError("d1", i)
    \/ \E i \in Slots : PullMerge("d1", i)
    \/ \E i \in Slots : PullCursor("d1", i)

SpecOwners == InitTombstone /\ [][NextOwners]_vars

\* What a device stores for an owner: the tasks, the queued operations and
\* the pull cursor.
StoredFor(tbl, q, m, u) ==
    [tasks |-> [k \in {x \in DOMAIN tbl : tbl[x].user_id = u} |-> tbl[k]],
     queue |-> [k \in {x \in DOMAIN q : q[x].user_id = u} |-> q[k]],
     cursor |-> getMetaValue(m, lastPullKey(u))]

\* The owners for whom a step does sync work: the owners of the syncNow
\* invocations that move, and the owner of the row of a change event handled.
WorkedFor(d) ==
    {sync'[d][i].user : i \in {j \in Slots : sync[d][j].pc = "idle" /\ sync'[d][j].pc # "idle"}}
      \cup {sync[d][i].user : i \in {j \in Slots : sync[d][j].pc # "idle"
                                                    /\ sync'[d][j] # sync[d][j]}}
      \cup {Head(feed[d]).new.user_id : x \in {y \in {1} : /\ feed[d] # <<>>
                                                            /\ feed'[d] = Tail(feed[d])
                                                            /\ Head(feed[d]).eventType # "DELETE"}}

\* C34: a step of syncNow (flush or pull) or of the change-feed callback for
\* an owner leaves the tasks, the queued operations and the pull cursor the
\* device stores for every other owner unchanged.
C34_OtherOwnersUntouched ==
    [][\A a \in WorkedFor("d1") : \A b \in Owners \ {a} :
          StoredFor(tasks'["d1"], queue'["d1"], meta'["d1"], b)
              = StoredFor(tasks["d1"], queue["d1"], meta["d1"], b)]_vars

\* C34 for the queue and the cursor alone.
C34_OtherOwnersQueueAndCursor ==
    [][\A a \in WorkedFor("d1") : \A b \in Owners \ {a} :
          /\ StoredFor(tasks'["d1"], queue'["d1"], meta'["d1"], b).queue
                = StoredFor(tasks["d1"], queue["d1"], meta["d1"], b).queue
          /\ StoredFor(tasks'["d1"], queue'["d1"], meta'["d1"], b).cursor
                = StoredFor(tasks["d1"], queue["d1"], meta["d1"], b).cursor]_vars

\* Device 1 holds the task the remote holds and edits it once, online or not
\* yet flushed; another client of the owner edits it once; syncNow and the
\* change-feed callback of the device run in any interleaving.
NextClobber ==
    \/ clock < MaxRecordClock /\ Tick
    \/ updateTask("d1", 1)
    \/ EditElsewhere
    \/ TaskChangeHandler("d1")
    \/ fireSync("d1")
    \/ \E i \in Slots : FlushCallOk("d1", i)
    \/ \E i \in Slots : FlushCallFail("d1", i)
    \/ \E i \in Slots : FlushMark("d1", i)
    \/ \E i \in Slots : FlushBumpGet("d1", i)
    \/ \E i \in Slots : FlushBumpPut("d1", i)
    \/ \E i \in Slots : PullSelect("d1", i)
    \/ \E i \in Slots : PullError("d1", i)
    \/ \E i \in Slots : PullMerge("d1", i)
    \/ \E i \in Slots : PullCursor("d1", i)

SpecClobber == InitTombstone /\ [][NextClobber]_vars

\* The operations whose remote call a step makes with success.
Flushing(d) ==
    {sync[d][i].pending[sync[d][i].idx] :
        i \in {j \in Slots : sync[d][j].pc = "flush" /\ sync'[d][j].pc = "mark"}}

\* C35: a flush never replaces a row of the remote by a queued snapshot whose
\* updated_at is smaller than that of the row.
C35_FlushKeepsNewerRow ==
    [][\A op \in Flushing("d1") :
          op.type = "upsert_task" /\ op.task_id \in DOMAIN remote
              => op.payload.updated_at >= remote[op.task_id].updated_at]_vars

\* C35 at the resolution of the device's clock: the snapshot is not of an
\* earlier millisecond than the row it replaces.
C35_FlushKeepsNewerMs ==
    [][\A op \in Flushing("d1") :
          op.type = "upsert_task" /\ op.task_id \in DOMAIN remote
              => toMs(op.payload.updated_at) >= toMs(remote[op.task_id].updated_at)]_vars

\* The device loses its connection: useOnlineStatus turns false.
GoOffline(d) ==
    /\ online[d]
    /\ online' = [online EXCEPT ![d] = FALSE]
    /\ UNCHANGED <<clock, sessionUser, remote, tasks, queue, meta, sync,
                   started, enqLog, applied, outOfOrder, mIn, mOut, feedVars, cronVars>>

\* Another client of the owner deletes a task while the device is offline:
\* no change event reaches the device.
DeleteElsewhere(d) ==
    /\ ~online[d]
    /\ \E id \in {k \in DOMAIN remote : remote[k].user_id = sessionUser[d]} :
          remote' = RemoteDelete(remote, id, sessionUser[d])
    /\ hist' = [hist EXCEPT !.remote1 = remote']
    /\ UNCHANGED <<clock, online, sessionUser, tasks, queue, meta, sync, started, enqLog,
                   applied, outOfOrder, mIn, mOut, feed, listener, cronVars>>

\* A device without local mutations and with an empty outbox: it goes offline
\* and online, another client edits a task once while the device is online
\* and deletes while it is offline, and its syncNow and change-feed callback
\* run whenever they can.
NextConverge ==
    \/ clock < MaxRecordClock /\ Tick
    \/ GoOffline("d1")
    \/ GoOnline("d1")
    \/ online["d1"] /\ EditElsewhere
    \/ DeleteElsewhere("d1")
    \/ TaskChangeHandler("d1")
    \/ fireSync("d1")
    \/ \E i \in Slots : PullSelect("d1", i)
    \/ \E i \in Slots : PullError("d1", i)
    \/ \E i \in Slots : PullMerge("d1", i)
    \/ \E i \in Slots : PullCursor("d1", i)

SpecConverge == InitFeed /\ [][NextConverge]_vars

\* Nothing is left for the device to do: it is online, its outbox is empty, no
\* syncNow is running, no change event waits, it has pulled before, and one
\* more pull would select nothing.
Settled(d) ==
    /\ online[d]
    /\ queue[d] = EmptyTable
    /\ InFlight(d) = {}
    /\ feed[d] = <<>>
    /\ getMetaValue(meta[d], lastPullKey(sessionUser[d])) # Null
    /\ SelectRows(remote, sessionUser[d],
                  getMetaValue(meta[d], lastPullKey(sessionUser[d]))) = {}

\* C36: once the device has nothing left to do, the ids of the tasks it holds
\* for the owner are the ids of the owner's rows in the remote.
C36_SettledIsConverged ==
    Settled("d1") =>
        Shown("d1") = {k \in DOMAIN remote : remote[k].user_id = sessionUser["d1"]}

\* Position of an operation in a sequence of operations (0 when it is not there).
PosIn(seq, opId) ==
    IF \E n \in DOMAIN seq : seq[n].id = opId
    THEN CHOOSE n \in DOMAIN seq : seq[n].id = opId
    ELSE 0

\* The operations of the owner that were enqueued before op, are still queued,
\* were never applied and have failed at least once.
FailingAhead(d, op) ==
    {h \in Range(queue[d]) :
        /\ h.user_id = op.user_id
        /\ h.id \notin applied
        /\ h.retries >= 1
        /\ EnqPos(d, h.id) < EnqPos(d, op.id)}

\* C37 (second part): an operation is not applied to the remote while an
\* operation enqueued before it is still queued, unapplied and failing.
C37_BehindFailingHeadWaits ==
    [][\A op \in Flushing("d1") : FailingAhead("d1", op) = {}]_vars

\* The same in the order getPendingQueue gives the queue.
C37_BehindFailingHeadOfQueueWaits ==
    [][\A op \in Flushing("d1") :
          LET pending == sortByCreatedAt(KeyOrder(queue["d1"],
                             {k \in DOMAIN queue["d1"] : queue["d1"][k].user_id = op.user_id}))
          IN \A h \in Range(queue["d1"]) :
                h.user_id = op.user_id /\ h.id \notin applied /\ h.retries >= 1
                    /\ h.id # op.id /\ PosIn(pending, op.id) > 0
                    => PosIn(pending, h.id) > PosIn(pending, op.id)]_vars

\* No two operations of the device were enqueued in the same millisecond.
NoTies(d) ==
    \A m, n \in DOMAIN enqLog[d] :
        m # n => enqLog[d][m].op.created_at # enqLog[d][n].op.created_at

\* C37 (second part) for operations enqueued in different milliseconds.
C37_BehindFailingHeadWaitsUnlessTie ==
    [][NoTies("d1") => \A op \in Flushing("d1") : FailingAhead("d1", op) = {}]_vars

\* The 60 s interval of the sync effect goes on firing: once the invocations
\* counted so far are over, the count starts again.
SyncTimer(d) ==
    /\ started[d] = MaxSyncs
    /\ InFlight(d) = {}
    /\ started' = [started EXCEPT ![d] = 0]
    /\ UNCHANGED <<clock, online, sessionUser, remote, tasks, queue, meta, sync,
                   enqLog, applied, outOfOrder, mIn, mOut, feedVars, cronVars>>

\* A step of the syncNow invocation in slot i.
SyncStep(d, i) ==
    \/ FlushCallOk(d, i)
    \/ FlushCallFail(d, i)
    \/ FlushMark(d, i)
    \/ FlushBumpGet(d, i)
    \/ FlushBumpPut(d, i)
    \/ PullSelect(d, i)
    \/ PullError(d, i)
    \/ PullMerge(d, i)
    \/ PullCursor(d, i)

\* Local mutations, as many as MaxOps, and syncNow triggered again and again.
NextDrain ==
    \/ clock < TicksPerMs + 1 /\ Tick
    \/ handleCreateTask("d1", MaxOps)
    \/ handleDeleteTask("d1", MaxOps)
    \/ fireSync("d1")
    \/ SyncTimer("d1")
    \/ \E i \in Slots : SyncStep("d1", i)

\* Every invocation goes on to its end, a remote call fails only while the
\* operation's retry count is below MaxRetries, and the triggers keep coming.
SpecDrain ==
    /\ Init
    /\ [][NextDrain]_vars
    /\ \A i \in Slots : WF_vars(SyncStep("d1", i))
    /\ WF_vars(fireSync("d1") \/ SyncTimer("d1"))

\* C37 (first part): every operation enqueued is applied to the remote in the
\* end, and the queue is empty from then on.
C37_QueueDrains ==
    <>[](/\ queue["d1"] = EmptyTable
         /\ \A n \in DOMAIN enqLog["d1"] : enqLog["d1"][n].id \in applied)

\* A device of the owner edits the title of t1 and its flush upserts the
\* snapshot: the whole row as the device holds it, with the last_notified_at
\* it last pulled (the stored one, or none when it has not seen the mark).
ForeignEditTitle ==
    \E title \in Titles :
      \E held \in {remote["t1"].last_notified_at, Null} :
        /\ title # remote["t1"].title
        /\ remote' = RemoteUpsert(remote,
                                  [remote["t1"] EXCEPT !.title = title,
                                                       !.last_notified_at = held],
                                  clock)
        /\ UNCHANGED <<clock, cronVars, hist>>
        /\ CronFrame

\* The dispatcher while the owner renames the task: t1 is a todo task of u1
\* due at 01:01 UTC and u1 has two push subscriptions.
NextRenotify ==
    \/ Elapse
    \/ ForeignEditTitle
    \/ CronRequest
    \/ CronQuery
    \/ CronQueryError
    \/ CronLoadSubscriptions
    \/ CronSkipTask
    \/ CronSend
    \/ CronTaskDone
    \/ CronMark
    \/ CronMarkError

SpecRenotify == InitReschedule /\ [][NextRenotify]_vars

\* C38: only the mark of a dispatcher run changes the last_notified_at of a
\* row of the remote; the upsert of a client's snapshot never resets or lowers
\* it.
C38_OnlyMarkWritesLastNotified ==
    [][\A id \in DOMAIN remote \cap DOMAIN remote' :
          remote'[id].last_notified_at # remote[id].last_notified_at
              => /\ cron.pc = "send"
                 /\ cron.task > Len(cron.due)
                 /\ id \in cron.sentTaskIds
                 /\ remote'[id].last_notified_at > remote[id].last_notified_at]_vars

\* A step of the device that merges remote data: the callback of the change
\* feed takes an event (insert, update or delete), or an invocation of
\* pullUpdates moves (its select, its merge, the write of its cursor).
MergeStep(d) ==
    \/ feed[d] # <<>> /\ feed'[d] = Tail(feed[d])
    \/ \E i \in Slots : /\ sync[d][i].pc \in {"pull", "merge", "cursor"}
                        /\ sync'[d][i] # sync[d][i]

C40_RemovedStaysRemoved ==
    [][\A e \in Range(enqLog["d1"]) :
          e.id \notin DOMAIN queue["d1"] => e.id \notin DOMAIN queue'["d1"]]_vars

\* C40 (the get of bumpQueueRetry): bumpQueueRetry on an operation that is not
\* in the queue when it reads leaves the queue as it is.
C40_BumpOfMissingIsNoOp ==
    [][\A i \in Slots :
          /\ sync["d1"][i].pc = "bump_get"
          /\ sync'["d1"][i] # sync["d1"][i]
          /\ sync["d1"][i].pending[sync["d1"][i].idx].id \notin DOMAIN queue["d1"]
          => /\ queue' = queue
             /\ sync'["d1"][i].pc = "pull"]_vars

====
